---- MODULE Spec2Model ----
(***************************************************************************)
(* Exposure-bracket selection (HDR_from_raw.py) and HDR-script synthesis   *)
(* (create_HDR_script.py) of the photo-processing scripts.                 *)
(*                                                                         *)
(* File names and script text are sequences of one-character strings, so   *)
(* that quoting, stripping, sorting and shell word-splitting are computed  *)
(* character by character, the way the Python code and bash do.            *)
(***************************************************************************)
EXTENDS Integers, Sequences, FiniteSets, TLC

VARIABLES
    \* HDR_from_raw.py
    avoid_darkness_adjustment, \* module global (line 38)
    clipping_threshold, \* module global (line 35)
    rawfile,            \* create_HDR_script: the RAWFILE parameter (rebound at line 127)
    cwd,                \* the process working directory (os.getcwd())
    olddir,             \* create_HDR_script: olddir (line 122)
    pc,                 \* position inside create_HDR_script
    shift_factor,       \* loop variable of the rendering loop (line 131)
    shift_mappings,     \* dict Ev shift -> file name (lines 128, 133, 142, 147, 157, 162)
    disk,               \* image files of the working directory: name -> content
    current_shift,      \* scan position (lines 137, 150, 152, 165)
    found_beginning,    \* scan state (lines 137, 149, 152, 164)
    found_end,          \* scan state (lines 137, 145, 152, 160)
    rendered,           \* history: Ev shift -> content the decoder wrote for it
    deleted,            \* history: the Ev shifts unlinked, in order of deletion
    synth_calls,        \* history: the file lists handed to create_script_from_file_list
    HDR_result,         \* what create_HDR_script returned: a script path, or None
    HDR_error,          \* the exception caught at line 180, or "none"
    scene,              \* environment: what the decoder makes of the raw file
    faulty_fs,          \* environment: whether os.unlink and open can fail
    jpeg_tags,          \* environment: the JPEG next to the raw file and its EXIF tags
    original_ISO,       \* create_HDR_script: original_ISO (line 129)
    original_Ev,        \* create_HDR_script: original_Ev (line 130)
    attempts,           \* history: the calls of produce_shifted_tonemap, in order
    log,                \* history: the level of each message given to log_it
    \* create_HDR_script.py
    script_disk,        \* script files on disk: name -> [text, executable]
    call,               \* create_script_from_file_list: the arguments of the latest call
    spc,                \* what the caller of create_script_from_file_list is doing
    written,            \* history: the script text of each call, in order
    old_scripts,        \* the files of the old_scripts/ directory
    synth_result,       \* the latest call: what it printed and what it returned
    \* a generated script being run by bash
    wd_files,           \* the files of the script's working directory
    archive,            \* the files of its HDR_components/ subdirectory
    sh_cmds,            \* the commands bash reads from the script
    sh_pc,              \* index of the next command
    sh_cwd,             \* the shell's working directory
    sh_olddir,          \* the shell variable OLDDIR
    sh_log,             \* history: outcome and effect of each command run
    \* postprocess_photos.py: run_shell_scripts
    rss_pc,             \* position inside run_shell_scripts
    has_components,     \* whether the directory HDR_components/ exists
    file_list,          \* run_shell_scripts: file_list (line 497)
    rss_next,           \* index into file_list of the loop of line 498
    executed,           \* history: the scripts subprocess.call ran, in order
    rss_seen,           \* history: the script files as they were at line 497
    \* postprocess_photos.py: create_HDRs_from_raws
    batch_pc,           \* position inside create_HDRs_from_raws
    the_raws,           \* create_HDRs_from_raws: the_raws (line 512)
    batch_next,         \* index into the_raws of the loop of line 515
    tonemapped,         \* history: the raw files given to HDR_tonemap_from_raw
    batch_error,        \* the exception that left create_HDRs_from_raws, or "none"
    \* HDR_from_raw.py: the histogram functions applied to one image
    image_histogram,    \* get_smoothed_image_histogram: h as read from the image (line 82)
    smoothed,           \* the values of h after each application of lines 83-84
    right_clipping,     \* what is_right_edge_clipping returned for the histogram
    left_clipping_reversed, \* what is_left_edge_clipping returned for its mirror image
    \* postprocess_photos.py: delete_spurious_raw_files
    raw_must_be_paired_with_JPEG, \* module global (line 110)
    delete_small_raws,  \* module global (line 111)
    photo_dir,          \* the files of the working directory: name -> longest side
    dsr_pc,             \* position inside delete_spurious_raw_files
    dsr_raws,           \* the list the running loop goes over (lines 328, 334)
    dsr_next,           \* index into dsr_raws
    removed,            \* history: the files given to os.remove, and on what ground
    \* photo_file_utils.py: FilenameMapper, and restore_file_names
    mapping,            \* FilenameMapper.mapping: the dict's items, in insertion order
    dir_files,          \* the files of the working directory: name -> the file it names
    mapper_pc,          \* whether files are being renamed or restore_file_names runs
    restore_next,       \* restore_file_names: index of the item the loop of line 403 is at
    first_names,        \* history: the directory before the first renaming
    renamed,            \* history: the files renamed at least once
    rename_calls,       \* history: the number of calls of rename_and_map
    \* create_HDR_script.py: create_script_from_first_file
    first_file,         \* the argument first_file
    num_files,          \* the argument num_files
    oldpath,            \* oldpath (line 128)
    csf_pc,             \* position inside create_script_from_first_file
    csf_error,          \* the exception that left the call, or "none"
    \* postprocess_photos.py: hang_around
    polls,              \* history: the number of scans hang_around has made
    grants              \* history: the chmod +x the user gave, and after how many runs

\* what no operation changes
env_vars == <<scene, faulty_fs, jpeg_tags>>

bracket_vars == <<avoid_darkness_adjustment, clipping_threshold, rawfile, cwd, olddir,
                  pc, shift_factor, shift_mappings, disk, current_shift,
                  found_beginning, found_end, rendered, deleted, synth_calls,
                  HDR_result, HDR_error, env_vars, original_ISO, original_Ev,
                  attempts, log>>

synth_vars == <<script_disk, call, spc, written, old_scripts, synth_result>>

run_vars == <<wd_files, archive, sh_cmds, sh_pc, sh_cwd, sh_olddir, sh_log>>

runner_vars == <<rss_pc, has_components, file_list, rss_next, executed, rss_seen>>

batch_vars == <<batch_pc, the_raws, batch_next, tonemapped, batch_error>>

histo_vars == <<image_histogram, smoothed, right_clipping, left_clipping_reversed>>

dsr_vars == <<raw_must_be_paired_with_JPEG, delete_small_raws, photo_dir, dsr_pc, dsr_raws,
              dsr_next, removed>>

mapper_vars == <<mapping, dir_files, mapper_pc, restore_next, first_names, renamed,
                 rename_calls>>

\* the variables of the other modules' operations
csf_vars == <<first_file, num_files, oldpath, csf_pc, csf_error>>

poll_vars == <<polls, grants>>

later_vars == <<runner_vars, batch_vars, histo_vars, dsr_vars, mapper_vars, csf_vars, poll_vars>>

\* what the bracket selection leaves alone
call_vars == <<call, spc, written, old_scripts, synth_result, run_vars, later_vars>>

vars == <<bracket_vars, synth_vars, run_vars, later_vars>>

-----------------------------------------------------------------------------
(* Strings *)

Chars(s) == [i \in 1..Len(s) |-> SubSeq(s, i, i)]

\* Newline and the printable ASCII characters (the backquote left out), in
\* code-point order.
AsciiTable == Chars("\n !\"#$%&'()*+,-./0123456789:;<=>?@ABCDEFGHIJKLMNOPQRSTUVWXYZ[\\]^_abcdefghijklmnopqrstuvwxyz{|}~")

\* Python compares str values by code point.
Ord(c) == CHOOSE i \in 1..Len(AsciiTable) : AsciiTable[i] = c

RECURSIVE StrLess(_, _)
StrLess(a, b) ==
    IF b = <<>> THEN FALSE
    ELSE IF a = <<>> THEN TRUE
    ELSE IF Head(a) = Head(b) THEN StrLess(Tail(a), Tail(b))
    ELSE Ord(Head(a)) < Ord(Head(b))

DecimalDigits == Chars("0123456789")

RECURSIVE Digits(_)
Digits(n) ==
    IF n < 10 THEN <<DecimalDigits[n + 1]>>
    ELSE Digits(n \div 10) \o <<DecimalDigits[(n % 10) + 1]>>

\* str(n) of a Python int
Str(n) == IF n < 0 THEN <<"-">> \o Digits(-n) ELSE Digits(n)

RECURSIVE LastIndexOf(_, _)
\* s.rfind(c), 1-based, 0 when absent
LastIndexOf(s, c) ==
    IF s = <<>> THEN 0
    ELSE IF s[Len(s)] = c THEN Len(s)
    ELSE LastIndexOf(SubSeq(s, 1, Len(s) - 1), c)

RECURSIVE StripTrailing(_, _)
StripTrailing(s, c) ==
    IF s # <<>> /\ s[Len(s)] = c THEN StripTrailing(SubSeq(s, 1, Len(s) - 1), c) ELSE s

\* os.path.split(p) (posixpath): head is everything before the last slash, with
\* trailing slashes removed unless it consists of slashes only.
os_path_split(p) ==
    LET i    == LastIndexOf(p, "/")
        head == SubSeq(p, 1, i)
        tail == SubSeq(p, i + 1, Len(p))
        h2   == IF StripTrailing(head, "/") = <<>> THEN head ELSE StripTrailing(head, "/")
    IN  <<h2, tail>>

RECURSIVE LeadingDots(_, _)
\* index of the first character at or after i that is not a dot (Len+1 if none)
LeadingDots(s, i) ==
    IF i <= Len(s) /\ s[i] = "." THEN LeadingDots(s, i + 1) ELSE i

\* os.path.splitext(p) (genericpath._splitext): the extension starts at the last
\* dot of the last path component, unless that component has only leading dots
\* before it.
os_path_splitext(p) ==
    LET sepIndex == LastIndexOf(p, "/")
        dotIndex == LastIndexOf(p, ".")
        firstNonDot == LeadingDots(p, sepIndex + 1)
    IN  IF dotIndex > sepIndex /\ firstNonDot < dotIndex
        THEN <<SubSeq(p, 1, dotIndex - 1), SubSeq(p, dotIndex, Len(p))>>
        ELSE <<p, <<>>>>

RECURSIVE Insert(_, _)
\* insertion of x into an ascending list
Insert(x, l) ==
    IF l = <<>> THEN <<x>>
    ELSE IF StrLess(x, Head(l)) THEN <<x>> \o l
    ELSE <<Head(l)>> \o Insert(x, Tail(l))

RECURSIVE sorted(_)
\* sorted(list of str): ascending by code point order
sorted(l) == IF l = <<>> THEN <<>> ELSE Insert(Head(l), sorted(Tail(l)))

Range(f) == {f[x] : x \in DOMAIN f}

RECURSIVE IndexOf(_, _)
\* list.index(x), 1-based; 0 stands for ValueError
IndexOf(l, x) ==
    IF l = <<>> THEN 0
    ELSE IF Head(l) = x THEN 1
    ELSE LET r == IndexOf(Tail(l), x) IN IF r = 0 THEN 0 ELSE r + 1

\* Fixed pieces of file names and of shlex.quote's output, as characters.
PrefixHDR_AIS  == Chars("HDR_AIS_")
SuffixHDR_TIFF == Chars("_HDR.TIFF")
ExtJPG == Chars(".JPG")
ExtSH  == Chars(".SH")
ExtTif == Chars(".tif")
BaseSuffix == Chars("+0.tif")
QuoteEscape == Chars("'\"'\"'")
EmptyQuotes == Chars("''")

-----------------------------------------------------------------------------
(* Brightness histograms (HDR_from_raw.py, lines 72-105) *)

NBuckets == 256

\* sum(h[lo-1:hi]) for 1-based inclusive bounds
RECURSIVE SumRange(_, _, _)
SumRange(h, lo, hi) ==
    IF lo > hi THEN 0
    ELSE IF lo = hi THEN h[lo]
    ELSE LET mid == (lo + hi) \div 2
         IN  SumRange(h, lo, mid) + SumRange(h, mid + 1, hi)

\* What Image.open(f).convert('L').histogram() can return for a rendering: the
\* pixels of a two-pixel image fall in the darkest bucket, in the brightest
\* one, both in a middle bucket, or one at each edge.
HistoKinds == {"dark", "bright", "mid", "split"}

Histogram(kind) ==
    [i \in 1..NBuckets |->
        CASE kind = "dark"   -> IF i = 1 THEN 2 ELSE 0
          [] kind = "bright" -> IF i = NBuckets THEN 2 ELSE 0
          [] kind = "mid"    -> IF i = (NBuckets \div 2) + 1 THEN 2 ELSE 0
          [] kind = "split"  -> IF i = 1 \/ i = NBuckets THEN 1 ELSE 0]

\* v > (sum(h) / len(h)) - 2 * statistics.stdev(h), in exact integer arithmetic:
\* with n = len(h), S = sum(h), d = n*v - S and Q = sum((n*x - S)^2) the sample
\* standard deviation is sqrt(Q / (n-1)) / n, so the test is
\* d > -2*sqrt(Q/(n-1)), i.e. d > 0 or (n-1)*d^2 < 4*Q (for d = 0 the test
\* holds unless Q = 0: no bucket of a constant histogram is above its mean).
SqDev(h, n, S) == [i \in 1..n |-> (n * h[i] - S) * (n * h[i] - S)]

AboveThreshold(n, S, Q, v) ==
    LET d == n * v - S
    IN  d > 0 \/ (n - 1) * d * d < 4 * Q

\* Variant of line 84 that halves what is not above the threshold.
Smooth_halving(h) ==
    LET n == Len(h)
        S == SumRange(h, 1, n)
        Q == SumRange(SqDev(h, n, S), 1, n)
    IN  IF S >= 0 /\ Q >= 0
        THEN [i \in 1..n |-> IF AboveThreshold(n, S, Q, h[i]) THEN h[i] ELSE h[i] \div 2]
        ELSE h

\* lines 83-84: anything not above the threshold is dropped to zero (the sums
\* are taken once, before the buckets are compared)
Smooth(h) ==
    LET n == Len(h)
        S == SumRange(h, 1, n)
        Q == SumRange(SqDev(h, n, S), 1, n)
    IN  IF S >= 0 /\ Q >= 0
        THEN [i \in 1..n |-> IF AboveThreshold(n, S, Q, h[i]) THEN h[i] ELSE 0]
        ELSE h

\* The smoothed histogram of each kind of rendering, computed once.
SmoothedHistogram == [k \in HistoKinds |-> Smooth(Histogram(k))]

\* lines 72-85; the file's content is what the decoder wrote at rendering time
get_smoothed_image_histogram(image_filename) == SmoothedHistogram[disk[image_filename]]

\* Variant of line 95 that takes a tie for no clipping.
right_edge_clipping_at_strict(histo, T) ==
    SumRange(histo, (NBuckets - T) + 1, Len(histo)) > SumRange(histo, 1, NBuckets - T)

\* line 95, for a clipping threshold T:
\* sum(histo[(256-T):]) >= sum(histo[:(256-T)])
right_edge_clipping_at(histo, T) ==
    SumRange(histo, (NBuckets - T) + 1, Len(histo)) >= SumRange(histo, 1, NBuckets - T)

\* Variant of line 105 that takes a tie for no clipping.
left_edge_clipping_at_strict(histo, T) ==
    SumRange(histo, 1, T) > SumRange(histo, T + 1, Len(histo))

\* line 105, for a clipping threshold T: sum(histo[:T]) >= sum(histo[T:])
left_edge_clipping_at(histo, T) ==
    SumRange(histo, 1, T) >= SumRange(histo, T + 1, Len(histo))

\* clipping_threshold = 144 at line 35; the narrow width lets a rendering be
\* clipped at neither edge (with 144 of 256 buckets the two edge zones overlap).
DefaultClippingThreshold == 144
NarrowClippingThreshold == 16
Thresholds == {DefaultClippingThreshold, NarrowClippingThreshold}

\* Both tests for every histogram a rendering can have, computed once.
RightClipping ==
    [T \in Thresholds |->
        [h \in Range(SmoothedHistogram) |-> right_edge_clipping_at(h, T)]]
LeftClipping ==
    [T \in Thresholds |->
        [h \in Range(SmoothedHistogram) |-> left_edge_clipping_at(h, T)]]

\* lines 88-95, with the module's clipping_threshold
is_right_edge_clipping(histo) == RightClipping[clipping_threshold][histo]

\* lines 98-105, with the module's clipping_threshold
is_left_edge_clipping(histo) == LeftClipping[clipping_threshold][histo]

-----------------------------------------------------------------------------
(* Bracket selection: HDR_from_raw.create_HDR_script *)

\* shifts = range(-5, 6) at line 34, eleven shifts centred on 0; the model
\* checks NumShifts of them, range(-(NumShifts // 2), NumShifts - NumShifts // 2)
NumShifts == 5
shifts == (0 - (NumShifts \div 2))..((NumShifts - (NumShifts \div 2)) - 1)

MinOf(S) == CHOOSE x \in S : \A y \in S : x <= y
MaxOf(S) == CHOOSE x \in S : \A y \in S : x >= y

RawFiles == {Chars("a.cr2"), Chars("d/b.cr2")}
StartDir == Chars("/p")

\* Variant of line 60 that leaves out the "+" of a non-negative shift.
shifted_tonemap_name_unsigned(raw, Ev_shift) ==
    PrefixHDR_AIS \o os_path_splitext(raw)[1] \o Str(Ev_shift) \o ExtTif

\* line 60: the name of the rendering of RAWFILE at EV_SHIFT
shifted_tonemap_name(raw, Ev_shift) ==
    PrefixHDR_AIS \o os_path_splitext(raw)[1]
        \o (IF Ev_shift >= 0 THEN <<"+">> ELSE <<>>) \o Str(Ev_shift) \o ExtTif

\* line 51: the assertion of massage_file_list
massage_file_list_ok(selected_files) == Len(selected_files) > 0

\* line 167: list(shift_mappings.values()); the dict keeps insertion order, and
\* the keys were inserted in ascending order of shift (line 131-133)
RECURSIVE ValuesFrom(_, _)
ValuesFrom(m, k) ==
    IF k > MaxOf(shifts) THEN <<>>
    ELSE (IF k \in DOMAIN m THEN <<m[k]>> ELSE <<>>) \o ValuesFrom(m, k + 1)

dict_values(m) == ValuesFrom(m, MinOf(shifts))

\* Variant of lines 169-177 in which line 177 takes the anchor out of the list
\* (base_TIFF = files_to_merge.pop(0)).
order_files_to_merge_pop(selected_files, raw) ==
    LET files     == sorted(selected_files)
        base_TIFF == os_path_splitext(raw)[1] \o BaseSuffix
        i         == IndexOf(files, base_TIFF)
    IN  IF i # 0
        THEN <<files[i]>> \o SubSeq(files, 1, i - 1) \o SubSeq(files, i + 1, Len(files))
        ELSE Tail(sorted(files))

\* Variant of lines 169-177 that never sorts: the list stays in dict order.
order_files_to_merge_unsorted(selected_files, raw) ==
    LET base_TIFF == os_path_splitext(raw)[1] \o BaseSuffix
        i         == IndexOf(selected_files, base_TIFF)
    IN  IF i # 0
        THEN <<selected_files[i]>> \o SubSeq(selected_files, 1, i - 1)
                 \o SubSeq(selected_files, i + 1, Len(selected_files))
        ELSE selected_files

\* lines 169-177: sort, then the unshifted file to the front if it is in the list
order_files_to_merge(selected_files, raw) ==
    LET files     == sorted(selected_files)
        base_TIFF == os_path_splitext(raw)[1] \o BaseSuffix
        i         == IndexOf(files, base_TIFF)
    IN  IF i # 0
        THEN <<files[i]>> \o SubSeq(files, 1, i - 1) \o SubSeq(files, i + 1, Len(files))
        ELSE sorted(files)

RemoveKey(m, k) == [x \in (DOMAIN m) \ {k} |-> m[x]]
RemoveFile(d, f) == [x \in (DOMAIN d) \ {f} |-> d[x]]

-----------------------------------------------------------------------------
(* Script synthesis: create_HDR_script.create_script_from_file_list *)

RECURSIVE Join(_, _)
\* sep.join(list)
Join(l, sep) ==
    IF l = <<>> THEN <<>>
    ELSE IF Len(l) = 1 THEN l[1]
    ELSE l[1] \o sep \o Join(Tail(l), sep)

RECURSIVE Replace(_, _, _)
\* s.replace(c, by) for a one-character c
Replace(s, c, by) ==
    IF s = <<>> THEN <<>>
    ELSE (IF Head(s) = c THEN by ELSE <<Head(s)>>) \o Replace(Tail(s), c, by)

\* shlex: _find_unsafe = re.compile(r'[^\w@%+=:,./-]', re.ASCII).search
SafeChars == Range(Chars("abcdefghijklmnopqrstuvwxyzABCDEFGHIJKLMNOPQRSTUVWXYZ0123456789_@%+=:,./-"))

\* shlex.quote(s)
shlex_quote(s) ==
    IF s = <<>> THEN EmptyQuotes
    ELSE IF \A i \in 1..Len(s) : s[i] \in SafeChars THEN s
    ELSE <<"'">> \o Replace(s, "'", QuoteEscape) \o <<"'">>

Whitespace == {" ", "\n", "\t"}

RECURSIVE lstrip(_, _)
\* s.lstrip(chars): drops leading characters that belong to the SET chars
lstrip(s, chars) ==
    IF s # <<>> /\ Head(s) \in chars THEN lstrip(Tail(s), chars) ELSE s

RECURSIVE rstrip(_, _)
rstrip(s, chars) ==
    IF s # <<>> /\ s[Len(s)] \in chars THEN rstrip(SubSeq(s, 1, Len(s) - 1), chars) ELSE s

\* s.strip()
strip(s) == rstrip(lstrip(s, Whitespace), Whitespace)

\* line 61
output_file_of(HDR_input_files) ==
    strip(lstrip(strip(os_path_splitext(HDR_input_files[1])[1]), Range(PrefixHDR_AIS)))
        \o SuffixHDR_TIFF

\* os.path.realpath(p) for a relative name without symbolic links, "." or "..":
\* the name joined to the working directory
realpath(dir, p) == IF p # <<>> /\ Head(p) = "/" THEN p ELSE dir \o <<"/">> \o p

\* line 62
wdir_of(dir, HDR_input_files) == os_path_split(realpath(dir, HDR_input_files[1]))[1]

QuoteAll(files) == [i \in 1..Len(files) |-> shlex_quote(files[i])]

JPG_of(output_file) == os_path_splitext(output_file)[1] \o ExtJPG

\* The fixed text of the script template (lines 64-93), as characters.
TextShebang     == Chars("#!/usr/bin/env bash\n\n# ")
TextFrom        == Chars(" from ")
TextEllipsis    == Chars(" ... ")
TextComma       == Chars(", ")
TextPreAligned  == Chars("assuming pre-aligned images")
TextAligning    == Chars("aligning first")
TextWrittenBy   == Chars("\n# This script written by Patrick Mooney's create_HDR_script.py script, see\n")
TextURL         == Chars("#     https://github.com/patrick-brian-mooney/photo-processing/\n\n")
TextOlddirCd    == Chars("OLDDIR=$(pwd)\ncd ")
TextNewline     == Chars("\n")
TextAlign       == Chars("\nalign_image_stack -xyzdivv -a HDR_AIS ")
TextEnfuse      == Chars("\nenfuse --output=")
TextEnfuseInput == Chars(" HDR_AIS*tif")
TextConvert     == Chars("\nconvert ")
TextQuality     == Chars(" -quality 98 ")
TextRm          == Chars("\nrm ")
TextBlankLine   == Chars("\n\n")
TextTagsFrom    == Chars("exiftool -tagsfromfile ")
TextOrientation == Chars("exiftool -n -Orientation=1 ")
TextOrientationComment ==
    Chars("       # Output of CONVERT is already oriented; correct the JPG orientation\n")
TextRmBackups   == Chars("rm *_original\n")
TextMv          == Chars("\nmv ")
TextComponents  == Chars(" HDR_components/")
TextRestoreDir  == Chars("\n\ncd \"$OLDDIR\" ")

\* lines 64-74
script_header(dir, HDR_input_files, suppress_align) ==
    TextShebang
        \o output_file_of(HDR_input_files) \o TextFrom \o HDR_input_files[1]
        \o TextEllipsis \o HDR_input_files[Len(HDR_input_files)] \o TextComma
        \o (IF suppress_align THEN TextPreAligned ELSE TextAligning)
        \o TextWrittenBy \o TextURL
        \o TextOlddirCd \o shlex_quote(wdir_of(dir, HDR_input_files)) \o TextNewline

\* lines 76-81
script_fusion(HDR_input_files, suppress_align) ==
    LET output_file == output_file_of(HDR_input_files)
    IN  (IF ~suppress_align
         THEN TextAlign \o Join(QuoteAll(HDR_input_files), <<" ">>)
         ELSE <<>>)
        \o TextEnfuse \o shlex_quote(output_file) \o TextEnfuseInput
        \o TextConvert \o shlex_quote(output_file) \o TextQuality
        \o shlex_quote(JPG_of(output_file))
        \o TextRm \o shlex_quote(output_file) \o TextBlankLine

\* lines 83-86; metadata_source_file is <<>> for None (an empty name is falsy too)
script_metadata(HDR_input_files, metadata_source_file) ==
    LET jpg == shlex_quote(JPG_of(output_file_of(HDR_input_files)))
    IN  IF metadata_source_file # <<>>
        THEN TextTagsFrom \o shlex_quote(metadata_source_file) \o <<" ">> \o jpg
                 \o TextNewline
                 \o TextOrientation \o jpg \o TextOrientationComment
                 \o TextRmBackups
        ELSE <<>>

\* lines 88-91
script_originals(HDR_input_files, delete_originals) ==
    IF delete_originals
    THEN TextRm \o Join(QuoteAll(HDR_input_files), <<" ">>)
    ELSE TextMv \o Join(QuoteAll(HDR_input_files), <<" ">>) \o TextComponents

\* Variant of lines 83-91 that disposes of the originals before the metadata copy.
the_script_of_originals_first(dir, HDR_input_files, metadata_source_file, delete_originals, suppress_align) ==
    script_header(dir, HDR_input_files, suppress_align)
        \o script_fusion(HDR_input_files, suppress_align)
        \o script_originals(HDR_input_files, delete_originals)
        \o TextBlankLine
        \o script_metadata(HDR_input_files, metadata_source_file)
        \o TextRestoreDir

\* lines 64-93: the text of the script
the_script_of(dir, HDR_input_files, metadata_source_file, delete_originals, suppress_align) ==
    script_header(dir, HDR_input_files, suppress_align)
        \o script_fusion(HDR_input_files, suppress_align)
        \o script_metadata(HDR_input_files, metadata_source_file)
        \o script_originals(HDR_input_files, delete_originals)
        \o TextRestoreDir

\* line 95
script_file_name_of(HDR_input_files) ==
    os_path_splitext(output_file_of(HDR_input_files))[1] \o ExtSH

-----------------------------------------------------------------------------
(* How bash reads a script: commands and their words.                      *)
(* A newline or semicolon outside quotes ends a command, blanks outside    *)
(* quotes end a word, # at the start of a word opens a comment that runs   *)
(* to the end of the line, '...' and "..." quote.  A * or $ that bash      *)
(* would expand is kept in the word as the element "<*>" or "<$>", so that *)
(* a quoted, literal * or $ stays different from it.                       *)

EndWord(st) ==
    IF st.inword
    THEN [st EXCEPT !.cmd = Append(st.cmd, st.word), !.word = <<>>, !.inword = FALSE]
    ELSE st

EndCommand(st) ==
    LET e == EndWord(st)
    IN  IF e.cmd = <<>> THEN e
        ELSE [e EXCEPT !.cmds = Append(e.cmds, e.cmd), !.cmd = <<>>]

AddChar(st, c) == [st EXCEPT !.word = Append(st.word, c), !.inword = TRUE]

\* one character of input
LexStep(st, c) ==
    CASE st.mode = "comment" ->
            IF c = "\n" THEN EndCommand([st EXCEPT !.mode = "plain"]) ELSE st
      [] st.mode = "single" ->
            IF c = "'" THEN [st EXCEPT !.mode = "plain"] ELSE AddChar(st, c)
      [] st.mode = "double" ->
            IF c = "\"" THEN [st EXCEPT !.mode = "plain"]
            ELSE IF c = "$" THEN AddChar(st, "<$>")
            ELSE AddChar(st, c)
      [] OTHER ->
            IF c = "\n" \/ c = ";" THEN EndCommand(st)
            ELSE IF c = " " \/ c = "\t" THEN EndWord(st)
            ELSE IF c = "#" /\ ~st.inword THEN [st EXCEPT !.mode = "comment"]
            ELSE IF c = "'" THEN [st EXCEPT !.mode = "single", !.inword = TRUE]
            ELSE IF c = "\"" THEN [st EXCEPT !.mode = "double", !.inword = TRUE]
            ELSE IF c = "*" THEN AddChar(st, "<*>")
            ELSE IF c = "$" THEN AddChar(st, "<$>")
            ELSE AddChar(st, c)

\* the characters i..j of the text, read in order (the range is halved, and
\* the first half is read before the second is entered, so that reading a
\* long script does not nest deeply; a lexer state always has a mode)
RECURSIVE Lex(_, _, _, _)
Lex(text, i, j, st) ==
    IF j < i THEN st
    ELSE IF i = j THEN LexStep(st, text[i])
    ELSE LET mid  == (i + j) \div 2
             left == Lex(text, i, mid, st)
         IN  IF left.mode = "" THEN left ELSE Lex(text, mid + 1, j, left)

\* the commands of a script, each a sequence of words
ShellCommands(text) ==
    EndCommand(Lex(text, 1, Len(text),
                   [mode |-> "plain", word |-> <<>>, inword |-> FALSE,
                    cmd |-> <<>>, cmds |-> <<>>])).cmds

-----------------------------------------------------------------------------
(* create_script_from_file_list, lines 95-99: the script file is opened    *)
(* with mode 'w' in the working directory, written, and made executable.   *)

None == <<"None">>
EmptyMap == [x \in {} |-> x]

\* create_script_from_file_list has not returned yet
NoResult == [printed |-> <<>>, returned |-> <<>>]

\* open(name, mode='a').write(text): the text is added to what the file holds
write_file_append(files, name, text) ==
    [x \in (DOMAIN files) \cup {name} |->
        IF x = name
        THEN [text |-> (IF name \in DOMAIN files THEN files[name].text ELSE <<>>) \o text,
              executable |-> IF name \in DOMAIN files THEN files[name].executable ELSE FALSE]
        ELSE files[x]]

\* open(name, mode='w').write(text): the file holds text and nothing else
write_file(files, name, text) ==
    [x \in (DOMAIN files) \cup {name} |->
        IF x = name
        THEN [text |-> text,
              executable |-> IF name \in DOMAIN files THEN files[name].executable ELSE FALSE]
        ELSE files[x]]

\* os.chmod(name, os.stat(name).st_mode | 0o111)
chmod_plus_x(files, name) == [files EXCEPT ![name].executable = TRUE]

\* lines 95-99
write_script(files, dir, HDR_input_files, metadata_source_file, delete_originals, suppress_align) ==
    chmod_plus_x(
        write_file(files, script_file_name_of(HDR_input_files),
                   the_script_of(dir, HDR_input_files, metadata_source_file,
                                 delete_originals, suppress_align)),
        script_file_name_of(HDR_input_files))

-----------------------------------------------------------------------------
(* The actions of create_HDR_script (HDR_from_raw.py, lines 117-183) *)

\* Variant of lines 180-183 without the finally clause of lines 182-183.
RaiseAfter_keeps_directory(msgs, e) ==
    /\ pc' = "done"
    /\ HDR_error' = e
    /\ HDR_result' = None
    /\ log' = log \o msgs \o <<"ERROR">>
    /\ UNCHANGED cwd

\* lines 180-183, after the messages msgs were logged: the exception is
\* logged, the directory restored, and the function falls off its end,
\* returning None
RaiseAfter(msgs, e) ==
    /\ pc' = "done"
    /\ HDR_error' = e
    /\ HDR_result' = None
    /\ log' = log \o msgs \o <<"ERROR">>
    /\ cwd' = olddir

Raise(e) == RaiseAfter(<<>>, e)

TagsISO == <<"ISO", "AutoISO", "BaseISO">>
TagsEv  == <<"MeasuredEV", "MeasuredEV2">>

\* a tag value as exifread gives it
IfdTag(n) == <<"IfdTag", n>>

\* The JPEG next to a raw file: none that can be read (find_alt_version gave
\* None, or the file is no JPEG), one with all the tags, or one with only a
\* tag the lists name last.
NoJPEG      == [readable |-> FALSE, tags |-> {}]
FullTags    == [readable |-> TRUE, tags |-> {<<"ISO", 200>>, <<"MeasuredEV", 10>>}]
PartialTags == [readable |-> TRUE, tags |-> {<<"BaseISO", 400>>}]

RECURSIVE get_value_from_any_tag(_, _)
\* file_utils.py, lines 17-31: the value of the first tag of taglist the file
\* has; None when it has none of them, and when the file cannot be opened or
\* read
get_value_from_any_tag(file, taglist) ==
    IF ~file.readable \/ taglist = <<>> THEN None
    ELSE IF \E t \in file.tags : t[1] = Head(taglist)
    THEN IfdTag((CHOOSE t \in file.tags : t[1] = Head(taglist))[2])
    ELSE get_value_from_any_tag(file, Tail(taglist))

Unreadable == "unreadable"

\* What the decoder writes for a shift.  The shell creates the output file
\* before the decoder runs (line 68: > outfile), so a decoder that fails
\* leaves a file that is no image.
SceneContents(sc, shift) ==
    CASE sc = "any"    -> HistoKinds
      [] sc = "ramp"   -> {IF shift < 0 THEN "dark" ELSE IF shift = 0 THEN "mid" ELSE "bright"}
      [] sc = "white"  -> {"bright"}
      [] sc = "broken" -> {IF shift = 0 THEN Unreadable ELSE "mid"}

Scenes == {"ramp", "white", "broken"}

\* lines 121-130
Enter ==
    /\ pc = "start"
    /\ UNCHANGED call_vars
    /\ log' = Append(log, "INFO")
    /\ olddir' = cwd
    /\ LET head == os_path_split(rawfile)[1]
           tail == os_path_split(rawfile)[2]
       IN  IF head # <<>>
           THEN /\ cwd' = realpath(cwd, head)
                /\ rawfile' = tail
           ELSE UNCHANGED <<cwd, rawfile>>
    /\ shift_mappings' = EmptyMap
    /\ original_ISO' = get_value_from_any_tag(jpeg_tags, TagsISO)
    /\ original_Ev' = get_value_from_any_tag(jpeg_tags, TagsEv)
    /\ shift_factor' = MinOf(shifts)
    /\ pc' = "render"
    /\ UNCHANGED <<avoid_darkness_adjustment, clipping_threshold, disk, current_shift,
                   found_beginning, found_end, rendered, deleted, synth_calls,
                   HDR_result, HDR_error, script_disk, env_vars, attempts>>

\* lines 131-133 with produce_shifted_tonemap, lines 55-69.  file_utils, which
\* HDR_from_raw imports as fu, defines no darkframe_location, so line 63 raises
\* AttributeError unless darkness adjustment is avoided.  The base ISO and Ev
\* are parameters the function does not use.
Render ==
    /\ pc = "render"
    /\ UNCHANGED call_vars
    /\ attempts' = Append(attempts, [Ev_shift |-> shift_factor, base_ISO |-> original_ISO,
                                     base_Ev |-> original_Ev])
    /\ IF ~avoid_darkness_adjustment
       THEN /\ RaiseAfter(<<"INFO">>, "AttributeError")
            /\ UNCHANGED <<shift_mappings, disk, rendered, shift_factor>>
       ELSE /\ \E content \in SceneContents(scene, shift_factor) :
                LET outfile == shifted_tonemap_name(rawfile, shift_factor)
                IN  /\ disk' = [x \in (DOMAIN disk) \cup {outfile} |->
                                    IF x = outfile THEN content ELSE disk[x]]
                    /\ rendered' = [x \in (DOMAIN rendered) \cup {shift_factor} |->
                                    IF x = shift_factor THEN content ELSE rendered[x]]
                    /\ shift_mappings' = [x \in (DOMAIN shift_mappings) \cup {shift_factor} |->
                                    IF x = shift_factor THEN outfile ELSE shift_mappings[x]]
            /\ IF shift_factor = MaxOf(shifts)
               THEN pc' = "begin_down" /\ UNCHANGED shift_factor
               ELSE pc' = "render" /\ shift_factor' = shift_factor + 1
            /\ log' = Append(log, "INFO")
            /\ UNCHANGED <<cwd, HDR_result, HDR_error>>
    /\ UNCHANGED <<avoid_darkness_adjustment, clipping_threshold, rawfile, olddir,
                   current_shift, found_beginning, found_end, deleted, synth_calls,
                   script_disk, env_vars, original_ISO, original_Ev>>

\* line 137
BeginDownScan ==
    /\ pc = "begin_down"
    /\ UNCHANGED call_vars
    /\ current_shift' = MaxOf(shifts)
    /\ found_beginning' = FALSE
    /\ found_end' = FALSE
    /\ pc' = "down"
    /\ UNCHANGED <<avoid_darkness_adjustment, clipping_threshold, rawfile, cwd, olddir,
                   shift_factor, shift_mappings, disk, rendered, deleted, synth_calls,
                   HDR_result, HDR_error, script_disk, env_vars, original_ISO,
                   original_Ev, attempts, log>>

\* Variant of lines 140-149 that deletes the first left-clipped image only,
\* not the images past it.
down_scan_body_deletes_one(h, beginning, end) ==
    IF end THEN [delete |-> FALSE, found_beginning |-> beginning, found_end |-> end]
    ELSE IF beginning
    THEN IF is_left_edge_clipping(h)
         THEN [delete |-> TRUE, found_beginning |-> beginning, found_end |-> TRUE]
         ELSE [delete |-> FALSE, found_beginning |-> beginning, found_end |-> end]
    ELSE [delete |-> FALSE, found_beginning |-> ~is_right_edge_clipping(h),
          found_end |-> end]

\* Variant of lines 140-149 that tests for right-edge clipping at every image
\* before the end is found.
down_scan_body_retests(h, beginning, end) ==
    IF end THEN [delete |-> TRUE, found_beginning |-> beginning, found_end |-> end]
    ELSE IF beginning /\ is_left_edge_clipping(h)
    THEN [delete |-> TRUE, found_beginning |-> beginning, found_end |-> TRUE]
    ELSE [delete |-> FALSE, found_beginning |-> ~is_right_edge_clipping(h),
          found_end |-> end]

\* lines 140-149, the body of the downward loop: whether the image is
\* deleted, and the scan state afterwards
down_scan_body(h, beginning, end) ==
    IF end THEN [delete |-> TRUE, found_beginning |-> beginning, found_end |-> end]
    ELSE IF beginning
    THEN IF is_left_edge_clipping(h)
         THEN [delete |-> TRUE, found_beginning |-> beginning, found_end |-> TRUE]
         ELSE [delete |-> FALSE, found_beginning |-> beginning, found_end |-> end]
    ELSE [delete |-> FALSE, found_beginning |-> ~is_right_edge_clipping(h),
          found_end |-> end]

\* Variant of lines 155-164 that keeps the first right-clipped image and
\* deletes only the ones after it.
up_scan_body_keeps_first(h, beginning, end) ==
    IF end THEN [delete |-> TRUE, found_beginning |-> beginning, found_end |-> end]
    ELSE IF beginning
    THEN [delete |-> FALSE, found_beginning |-> beginning,
          found_end |-> is_right_edge_clipping(h)]
    ELSE [delete |-> FALSE, found_beginning |-> ~is_left_edge_clipping(h),
          found_end |-> end]

\* lines 155-164, the body of the upward loop
up_scan_body(h, beginning, end) ==
    IF end THEN [delete |-> TRUE, found_beginning |-> beginning, found_end |-> end]
    ELSE IF beginning
    THEN IF is_right_edge_clipping(h)
         THEN [delete |-> TRUE, found_beginning |-> beginning, found_end |-> TRUE]
         ELSE [delete |-> FALSE, found_beginning |-> beginning, found_end |-> end]
    ELSE [delete |-> FALSE, found_beginning |-> ~is_left_edge_clipping(h),
          found_end |-> end]

\* os.unlink(shift_mappings[current_shift]); del(shift_mappings[current_shift])
Unlink(shift) ==
    /\ disk' = RemoveFile(disk, shift_mappings[shift])
    /\ shift_mappings' = RemoveKey(shift_mappings, shift)
    /\ deleted' = Append(deleted, shift)

\* whether a call of os.unlink or open(..., 'w') goes through
FsOutcomes == IF faulty_fs THEN BOOLEAN ELSE {TRUE}

\* lines 138-150: one iteration of the downward loop.  Image.open raises on a
\* file that is no image, os.unlink on a file it cannot remove.
DownScan ==
    /\ pc = "down"
    /\ UNCHANGED call_vars
    /\ IF current_shift \notin DOMAIN shift_mappings
       THEN /\ Raise("KeyError")
            /\ UNCHANGED <<disk, shift_mappings, deleted, found_beginning, found_end,
                           current_shift>>
       ELSE IF disk[shift_mappings[current_shift]] = Unreadable
       THEN /\ Raise("UnidentifiedImageError")
            /\ UNCHANGED <<disk, shift_mappings, deleted, found_beginning, found_end,
                           current_shift>>
       ELSE LET r == down_scan_body(get_smoothed_image_histogram(shift_mappings[current_shift]),
                                    found_beginning, found_end)
            IN  \E ok \in FsOutcomes :
                   /\ found_beginning' = r.found_beginning
                   /\ found_end' = r.found_end
                   /\ IF r.delete /\ ~ok
                      THEN /\ Raise("OSError")
                           /\ UNCHANGED <<disk, shift_mappings, deleted, current_shift>>
                      ELSE /\ IF r.delete THEN Unlink(current_shift)
                                          ELSE UNCHANGED <<disk, shift_mappings, deleted>>
                           /\ current_shift' = current_shift - 1
                           /\ pc' = IF current_shift - 1 >= MinOf(shifts)
                                    THEN "down" ELSE "begin_up"
                           /\ UNCHANGED <<cwd, HDR_result, HDR_error, log>>
    /\ UNCHANGED <<avoid_darkness_adjustment, clipping_threshold, rawfile, olddir,
                   shift_factor, rendered, synth_calls, script_disk, env_vars,
                   original_ISO, original_Ev, attempts>>

\* line 152; min() of an empty sequence raises ValueError
BeginUpScan ==
    /\ pc = "begin_up"
    /\ UNCHANGED call_vars
    /\ IF DOMAIN shift_mappings = {}
       THEN /\ Raise("ValueError")
            /\ UNCHANGED <<current_shift, found_beginning, found_end>>
       ELSE /\ current_shift' = MinOf(DOMAIN shift_mappings)
            /\ found_beginning' = FALSE
            /\ found_end' = FALSE
            /\ pc' = "up"
            /\ UNCHANGED <<cwd, HDR_result, HDR_error, log>>
    /\ UNCHANGED <<avoid_darkness_adjustment, clipping_threshold, rawfile, olddir,
                   shift_factor, shift_mappings, disk, rendered, deleted, synth_calls,
                   script_disk, env_vars, original_ISO, original_Ev, attempts>>

\* lines 153-165: one iteration of the upward loop
UpScan ==
    /\ pc = "up"
    /\ UNCHANGED call_vars
    /\ IF current_shift \notin DOMAIN shift_mappings
       THEN /\ Raise("KeyError")
            /\ UNCHANGED <<disk, shift_mappings, deleted, found_beginning, found_end,
                           current_shift>>
       ELSE IF disk[shift_mappings[current_shift]] = Unreadable
       THEN /\ Raise("UnidentifiedImageError")
            /\ UNCHANGED <<disk, shift_mappings, deleted, found_beginning, found_end,
                           current_shift>>
       ELSE LET r == up_scan_body(get_smoothed_image_histogram(shift_mappings[current_shift]),
                                  found_beginning, found_end)
            IN  \E ok \in FsOutcomes :
                   /\ found_beginning' = r.found_beginning
                   /\ found_end' = r.found_end
                   /\ IF r.delete /\ ~ok
                      THEN /\ Raise("OSError")
                           /\ UNCHANGED <<disk, shift_mappings, deleted, current_shift>>
                      ELSE /\ IF r.delete THEN Unlink(current_shift)
                                          ELSE UNCHANGED <<disk, shift_mappings, deleted>>
                           /\ current_shift' = current_shift + 1
                           /\ pc' = IF current_shift + 1 <= MaxOf(shifts)
                                    THEN "up" ELSE "select"
                           /\ UNCHANGED <<cwd, HDR_result, HDR_error, log>>
    /\ UNCHANGED <<avoid_darkness_adjustment, clipping_threshold, rawfile, olddir,
                   shift_factor, rendered, synth_calls, script_disk, env_vars,
                   original_ISO, original_Ev, attempts>>

\* lines 167-179 and 182-183: the list is checked, ordered and handed to
\* create_script_from_file_list, which writes the script into the working
\* directory (open raises OSError when it cannot); the script's absolute path
\* is returned
Select ==
    /\ pc = "select"
    /\ UNCHANGED call_vars
    /\ LET selected_files == dict_values(shift_mappings)
       IN  IF ~massage_file_list_ok(selected_files)
           THEN /\ Raise("AssertionError")
                /\ UNCHANGED <<synth_calls, script_disk>>
           ELSE LET files_to_merge == order_files_to_merge(selected_files, rawfile)
                IN  /\ synth_calls' = Append(synth_calls, files_to_merge)
                    /\ IF files_to_merge = <<>>
                       THEN /\ Raise("IndexError")      \* line 61: HDR_input_files[0]
                            /\ UNCHANGED script_disk
                       ELSE \E ok \in FsOutcomes :
                               IF ~ok
                               THEN /\ Raise("OSError")
                                    /\ UNCHANGED script_disk
                               ELSE /\ script_disk' = write_script(script_disk, cwd,
                                                          files_to_merge, rawfile, TRUE, TRUE)
                                    /\ HDR_result' = realpath(cwd,
                                                          script_file_name_of(files_to_merge))
                                    /\ cwd' = olddir
                                    /\ pc' = "done"
                                    /\ UNCHANGED <<HDR_error, log>>
    /\ UNCHANGED <<avoid_darkness_adjustment, clipping_threshold, rawfile, olddir,
                   shift_factor, shift_mappings, disk, current_shift, found_beginning,
                   found_end, rendered, deleted, env_vars, original_ISO, original_Ev,
                   attempts>>

\* create_HDR_script is not called
NoBracket ==
    /\ avoid_darkness_adjustment = FALSE
    /\ clipping_threshold = DefaultClippingThreshold
    /\ rawfile = None
    /\ cwd = StartDir
    /\ olddir = None
    /\ pc = "off"
    /\ shift_factor = 0
    /\ shift_mappings = EmptyMap
    /\ disk = EmptyMap
    /\ current_shift = 0
    /\ found_beginning = FALSE
    /\ found_end = FALSE
    /\ rendered = EmptyMap
    /\ deleted = <<>>
    /\ synth_calls = <<>>
    /\ HDR_result = None
    /\ HDR_error = "none"
    /\ scene = "any"
    /\ faulty_fs = FALSE
    /\ jpeg_tags = NoJPEG
    /\ original_ISO = None
    /\ original_Ev = None
    /\ attempts = <<>>
    /\ log = <<>>

\* no script is being run
NoRun ==
    /\ wd_files = {}
    /\ archive = {}
    /\ sh_cmds = <<>>
    /\ sh_pc = 1
    /\ sh_cwd = None
    /\ sh_olddir = None
    /\ sh_log = <<>>

\* run_shell_scripts is not called
NoRunner ==
    /\ rss_pc = "off"
    /\ has_components = TRUE
    /\ file_list = <<>>
    /\ rss_next = 1
    /\ executed = <<>>
    /\ rss_seen = EmptyMap

\* create_HDRs_from_raws is not called
NoBatch ==
    /\ batch_pc = "off"
    /\ the_raws = <<>>
    /\ batch_next = 1
    /\ tonemapped = <<>>
    /\ batch_error = "none"

\* the histogram functions are applied to no image of their own
NoHisto ==
    /\ image_histogram = <<>>
    /\ smoothed = <<>>
    /\ right_clipping = <<>>
    /\ left_clipping_reversed = <<>>

\* delete_spurious_raw_files is not called
NoSpurious ==
    /\ raw_must_be_paired_with_JPEG = FALSE
    /\ delete_small_raws = TRUE
    /\ photo_dir = EmptyMap
    /\ dsr_pc = "off"
    /\ dsr_raws = <<>>
    /\ dsr_next = 1
    /\ removed = <<>>

\* no file is renamed through a FilenameMapper
NoMapper ==
    /\ mapping = <<>>
    /\ dir_files = EmptyMap
    /\ mapper_pc = "off"
    /\ restore_next = 1
    /\ first_names = EmptyMap
    /\ renamed = {}
    /\ rename_calls = 0

\* none of the other modules' operations is called
\* create_script_from_first_file is not called
NoFirstFile ==
    /\ first_file = <<>>
    /\ num_files = 0
    /\ oldpath = <<>>
    /\ csf_pc = "off"
    /\ csf_error = "none"

\* hang_around is not called
NoPoll ==
    /\ polls = 0
    /\ grants = <<>>

NoLater == NoRunner /\ NoBatch /\ NoHisto /\ NoSpurious /\ NoMapper /\ NoFirstFile /\ NoPoll

\* create_script_from_file_list has no caller but create_HDR_script
NoCall ==
    /\ call = None
    /\ spc = "off"
    /\ old_scripts = {}
    /\ synth_result = NoResult
    /\ written = <<>>
    /\ NoRun

Init ==
    /\ avoid_darkness_adjustment \in BOOLEAN
    /\ clipping_threshold \in Thresholds
    /\ rawfile \in RawFiles
    /\ cwd = StartDir
    /\ olddir = None
    /\ pc = "start"
    /\ shift_factor = MinOf(shifts)
    /\ shift_mappings = EmptyMap
    /\ disk = EmptyMap
    /\ current_shift = MaxOf(shifts)
    /\ found_beginning = FALSE
    /\ found_end = FALSE
    /\ rendered = EmptyMap
    /\ deleted = <<>>
    /\ synth_calls = <<>>
    /\ HDR_result = None
    /\ HDR_error = "none"
    /\ scene = "any"
    /\ faulty_fs = FALSE
    /\ jpeg_tags = FullTags
    /\ original_ISO = None
    /\ original_Ev = None
    /\ attempts = <<>>
    /\ log = <<>>
    /\ script_disk = EmptyMap
    /\ NoCall
    /\ NoLater

Next ==
    \/ Enter
    \/ Render
    \/ BeginDownScan
    \/ DownScan
    \/ BeginUpScan
    \/ UpScan
    \/ Select

Spec == Init /\ [][Next]_vars

-----------------------------------------------------------------------------
(* create_script_from_file_list called directly (create_HDR_script.py,      *)
(* lines 36-114), and the script it writes run by bash.                     *)

MaxFiles == 2
MaxCalls == 2

NamePlain    == Chars("b.jpg")
NameIMG      == Chars("IMG_1.jpg")
NameRendered == Chars("HDR_AIS_a+0.tif")
NameMeta     == Chars("my x'y;$z*.jpg")
NameNewline  == Chars("a\nrm b.jpg")

\* the file names a caller passes: bare names in the working directory
FileNames == {NamePlain, NameIMG, NameRendered, NameMeta, NameNewline}

RawName == Chars("a.cr2")

OldScript == Chars("old.SH")

Injective(l) == \A i, k \in 1..Len(l) : l[i] = l[k] => i = k

\* the non-empty lists of distinct names, up to MaxFiles long
InputLists ==
    {l \in UNION {[1..n -> FileNames] : n \in 1..MaxFiles} : Injective(l)}

\* a name that is given as an old script while no such file exists
MissingScript == Chars("gone.SH")

Calls ==
    [HDR_input_files : InputLists, metadata_source_file : {<<>>, RawName},
     delete_originals : BOOLEAN, suppress_align : BOOLEAN,
     file_to_move : {<<>>, OldScript, MissingScript}, file_to_delete : {<<>>, OldScript}]

ErrorUnableToMove == "ERROR: unable to move the old script"
ErrorUnableToDelete == "ERROR: unable to delete the old script"

\* lines 100-106: shutil.move into old_scripts/, which is made if it is not
\* there; the move fails when there is no such file or when old_scripts/
\* holds a file of that name, and any failure is printed and dropped
move_old_script(state, file_to_move) ==
    IF file_to_move = <<>> THEN state
    ELSE IF file_to_move \in DOMAIN state.disk /\ file_to_move \notin state.old
    THEN [state EXCEPT !.disk = RemoveKey(state.disk, file_to_move),
                       !.old  = state.old \cup {file_to_move}]
    ELSE [state EXCEPT !.printed = Append(state.printed, ErrorUnableToMove)]

\* Variant of lines 107-112 in which a failed move ends the housekeeping.
delete_old_script_after_clean_move(state, file_to_delete) ==
    IF file_to_delete = <<>> \/ state.printed # <<>> THEN state
    ELSE IF file_to_delete \in DOMAIN state.disk
    THEN [state EXCEPT !.disk = RemoveKey(state.disk, file_to_delete)]
    ELSE [state EXCEPT !.printed = Append(state.printed, ErrorUnableToDelete)]

\* lines 107-112: os.remove; any failure is printed and dropped
delete_old_script(state, file_to_delete) ==
    IF file_to_delete = <<>> THEN state
    ELSE IF file_to_delete \in DOMAIN state.disk
    THEN [state EXCEPT !.disk = RemoveKey(state.disk, file_to_delete)]
    ELSE [state EXCEPT !.printed = Append(state.printed, ErrorUnableToDelete)]

\* lines 36-114: what one call of create_script_from_file_list does and
\* returns, in the directory the process is in
create_script_from_file_list(c) ==
    LET new == write_script(script_disk, cwd, c.HDR_input_files,
                            c.metadata_source_file, c.delete_originals,
                            c.suppress_align)
        kept == delete_old_script(
                    move_old_script([disk |-> new, old |-> old_scripts,
                                     printed |-> <<>>],
                                    c.file_to_move),
                    c.file_to_delete)
    IN  /\ call' = c
        /\ written' = Append(written,
                             the_script_of(cwd, c.HDR_input_files,
                                           c.metadata_source_file,
                                           c.delete_originals, c.suppress_align))
        /\ script_disk' = kept.disk
        /\ old_scripts' = kept.old
        /\ synth_result' = [printed  |-> kept.printed,
                            returned |-> script_file_name_of(c.HDR_input_files)]

\* one call of create_script_from_file_list, from StartDir. A repeated call is
\* made with the arguments of the one before it.
Synthesize ==
    /\ spc = "idle"
    /\ Len(written) < MaxCalls
    /\ \E c \in (IF written = <<>> THEN Calls ELSE {call}) :
          /\ create_script_from_file_list(c)
          /\ wd_files' = IF written = <<>>
                         THEN Range(c.HDR_input_files)
                                  \cup (IF c.metadata_source_file = <<>> THEN {}
                                        ELSE {c.metadata_source_file})
                         ELSE wd_files
    /\ spc' = "idle"
    /\ UNCHANGED <<bracket_vars, later_vars, archive, sh_cmds, sh_pc, sh_cwd, sh_olddir, sh_log>>

-----------------------------------------------------------------------------
(* Running a generated script. The script is the text of lines 64-93; bash  *)
(* runs its commands one after another and, as the script sets no option    *)
(* that says otherwise, goes on to the next command when one fails.         *)
(* HDR_components/ exists when a script runs (postprocess_photos.py, lines  *)
(* 492-494, makes it before any script is run).                             *)

WordRm        == Chars("rm")
WordMv        == Chars("mv")
WordCd        == Chars("cd")
WordAlign     == Chars("align_image_stack")
WordAlignOpts == <<Chars("-xyzdivv"), Chars("-a"), Chars("HDR_AIS")>>
WordEnfuse    == Chars("enfuse")
WordOutput    == Chars("--output=")
WordConvert   == Chars("convert")
WordQuality   == <<Chars("-quality"), Chars("98")>>
WordExiftool  == Chars("exiftool")
WordTagsFrom  == Chars("-tagsfromfile")
WordOrientOpts == <<Chars("-n"), Chars("-Orientation=1")>>
WordComponents == Chars("HDR_components/")
WordSetOlddir == Chars("OLDDIR=") \o <<"<$>">> \o Chars("(pwd)")
WordOlddir    == <<"<$>">> \o Chars("OLDDIR")
WordAISGlob   == Chars("HDR_AIS") \o <<"<*>">> \o Chars("tif")
WordBackups   == <<"<*>">> \o Chars("_original")
SuffixOriginal == Chars("_original")
AlignedPrefix == Chars("HDR_AIS000")

HasPrefix(s, pre) == Len(s) >= Len(pre) /\ SubSeq(s, 1, Len(pre)) = pre
HasSuffix(s, suf) == Len(s) >= Len(suf) /\ SubSeq(s, Len(s) - Len(suf) + 1, Len(s)) = suf

\* pathname expansion of a word with one unquoted *
Matches(w, name) ==
    LET i == CHOOSE k \in 1..Len(w) : w[k] = "<*>"
        pre == SubSeq(w, 1, i - 1)
        suf == SubSeq(w, i + 1, Len(w))
    IN  /\ Len(name) >= Len(pre) + Len(suf)
        /\ HasPrefix(name, pre)
        /\ HasSuffix(name, suf)

\* the names a word stands for; a pattern that matches nothing stays as it is
Expand(w, dir) ==
    IF "<*>" \in Range(w)
    THEN LET m == {name \in dir : Matches(w, name)}
         IN  IF m = {} THEN {w} ELSE m
    ELSE {w}

Operands(ws, dir) == UNION {Expand(ws[i], dir) : i \in 1..Len(ws)}

\* align_image_stack -a HDR_AIS: the k-th aligned image
AlignedName(k) == AlignedPrefix \o Str(k - 1) \o ExtTif

IsBuiltin(cmd) == cmd[1] \in {WordRm, WordMv, WordCd, WordSetOlddir}

\* whether the command can end with status 0 in the directory as it is
CanSucceed(cmd) ==
    LET args == Tail(cmd)
        n    == Len(args)
    IN  CASE cmd[1] = WordSetOlddir -> TRUE
          [] cmd[1] = WordCd -> n >= 1
          [] cmd[1] = WordRm -> n >= 1 /\ Operands(args, wd_files) \subseteq wd_files
          [] cmd[1] = WordMv ->
                /\ n >= 2
                /\ args[n] = WordComponents
                /\ Operands(SubSeq(args, 1, n - 1), wd_files) \subseteq wd_files
          [] cmd[1] = WordAlign ->
                n >= 4 /\ Operands(SubSeq(args, 4, n), wd_files) \subseteq wd_files
          [] cmd[1] = WordEnfuse ->
                n >= 2 /\ Operands(SubSeq(args, 2, n), wd_files) \subseteq wd_files
          [] cmd[1] = WordConvert -> n >= 4 /\ args[1] \in wd_files
          [] cmd[1] = WordExiftool ->
                /\ n >= 1
                /\ args[n] \in wd_files
                /\ (args[1] = WordTagsFrom => n >= 3 /\ args[2] \in wd_files)
          [] OTHER -> FALSE

\* the working directory's files after the command
FilesAfter(cmd, ok) ==
    LET args == Tail(cmd)
        n    == Len(args)
    IN  CASE cmd[1] = WordRm -> wd_files \ Operands(args, wd_files)
          [] cmd[1] = WordMv /\ n >= 2 /\ args[n] = WordComponents ->
                wd_files \ Operands(SubSeq(args, 1, n - 1), wd_files)
          [] cmd[1] = WordAlign /\ ok ->
                wd_files \cup {AlignedName(k) : k \in 1..(n - 3)}
          [] cmd[1] = WordEnfuse /\ ok ->
                wd_files \cup {SubSeq(args[1], Len(WordOutput) + 1, Len(args[1]))}
          [] cmd[1] = WordConvert /\ ok -> wd_files \cup {args[4]}
          [] cmd[1] = WordExiftool /\ ok -> wd_files \cup {args[n] \o SuffixOriginal}
          [] OTHER -> wd_files

\* one command of the script
RunCommand ==
    /\ spc = "running"
    /\ sh_pc <= Len(sh_cmds)
    /\ LET cmd == sh_cmds[sh_pc]
       IN  \E ok \in BOOLEAN :
              /\ ok => CanSucceed(cmd)
              /\ IsBuiltin(cmd) => (ok <=> CanSucceed(cmd))
              /\ wd_files' = FilesAfter(cmd, ok)
              /\ archive' = IF cmd[1] = WordMv
                            THEN archive \cup (wd_files \ FilesAfter(cmd, ok))
                            ELSE archive
              /\ sh_cwd' = IF cmd[1] = WordCd /\ ok
                           THEN (IF cmd[2] = WordOlddir THEN sh_olddir ELSE cmd[2])
                           ELSE sh_cwd
              /\ sh_olddir' = IF cmd[1] = WordSetOlddir THEN sh_cwd ELSE sh_olddir
              /\ sh_log' = Append(sh_log,
                                  [ok |-> ok,
                                   removed |-> IF cmd[1] = WordRm
                                               THEN wd_files \ FilesAfter(cmd, ok) ELSE {},
                                   moved |-> IF cmd[1] = WordMv
                                             THEN wd_files \ FilesAfter(cmd, ok) ELSE {}])
    /\ sh_pc' = sh_pc + 1
    /\ spc' = IF sh_pc = Len(sh_cmds) THEN "ran" ELSE "running"
    /\ UNCHANGED <<bracket_vars, later_vars, script_disk, call, written, old_scripts, synth_result, sh_cmds>>

\* bash is started on the script of the latest call, in the directory the
\* script was written to
StartScript ==
    /\ spc = "idle"
    /\ written # <<>>
    /\ LET name == script_file_name_of(call.HDR_input_files)
       IN  /\ name \in DOMAIN script_disk
           /\ script_disk[name].executable
           /\ sh_cmds' = ShellCommands(script_disk[name].text)
    /\ sh_pc' = 1
    /\ sh_cwd' = StartDir
    /\ sh_olddir' = <<>>
    /\ sh_log' = <<>>
    /\ spc' = "running"
    /\ UNCHANGED <<bracket_vars, later_vars, script_disk, call, written, old_scripts, synth_result, wd_files, archive>>

InitScript ==
    /\ avoid_darkness_adjustment = FALSE
    /\ clipping_threshold = DefaultClippingThreshold
    /\ rawfile = RawName
    /\ cwd = StartDir
    /\ olddir = None
    /\ pc = "off"
    /\ shift_factor = 0
    /\ shift_mappings = EmptyMap
    /\ disk = EmptyMap
    /\ current_shift = 0
    /\ found_beginning = FALSE
    /\ found_end = FALSE
    /\ rendered = EmptyMap
    /\ deleted = <<>>
    /\ synth_calls = <<>>
    /\ HDR_result = None
    /\ HDR_error = "none"
    /\ scene = "any"
    /\ faulty_fs = FALSE
    /\ jpeg_tags = NoJPEG
    /\ original_ISO = None
    /\ original_Ev = None
    /\ attempts = <<>>
    /\ log = <<>>
    /\ script_disk = [x \in {OldScript} |-> [text |-> <<>>, executable |-> FALSE]]
    /\ call = None
    /\ spc = "idle"
    /\ written = <<>>
    /\ old_scripts = {}
    /\ synth_result = NoResult
    /\ NoRun
    /\ NoLater

NextScript ==
    \/ Synthesize
    \/ StartScript
    \/ RunCommand

SpecScript == InitScript /\ [][NextScript]_vars

-----------------------------------------------------------------------------
(* Properties of bracket selection *)

\* every shift of the range has been rendered
AllRendered == DOMAIN rendered = shifts

\* the clipping tests on the rendering made for a shift
RightClipped(s) == is_right_edge_clipping(SmoothedHistogram[rendered[s]])
LeftClipped(s)  == is_left_edge_clipping(SmoothedHistogram[rendered[s]])

\* the Ev shift a rendering's file name stands for
ShiftOfName(name) == CHOOSE s \in shifts : shifted_tonemap_name(rawfile, s) = name

NamesOf(S) == {shifted_tonemap_name(rawfile, s) : s \in S}

Ascending(evs)  == \A i \in 1..(Len(evs) - 1) : evs[i] < evs[i + 1]
Descending(evs) == \A i \in 1..(Len(evs) - 1) : evs[i] > evs[i + 1]

EvsOf(files) == [i \in 1..Len(files) |-> ShiftOfName(files[i])]

\* C1: whatever the clipping outcomes of the rendered candidates, script
\* synthesis is never invoked with an empty file list; once every candidate
\* is rendered, create_HDR_script ends either having handed one non-empty
\* list to synthesis or with the assertion error of massage_file_list.
C1_NeverSynthesizesEmptyList ==
    /\ \A i \in 1..Len(synth_calls) : synth_calls[i] # <<>>
    /\ (pc = "done" /\ AllRendered) =>
          \/ Len(synth_calls) = 1 /\ HDR_result # None /\ HDR_error = "none"
          \/ synth_calls = <<>> /\ HDR_result = None /\ HDR_error = "AssertionError"

\* C1 witness: selection ended with a single survivor, handed to synthesis.
C1_Witness ==
    /\ pc = "done" /\ AllRendered
    /\ Len(synth_calls) = 1 /\ Len(synth_calls[1]) = 1
    /\ Len(deleted) = NumShifts - 1

\* C2: when every rendered candidate is right-edge clipped, selection ends
\* in the empty-bracket error and no list reaches synthesis.
C2_AllRightClippedRaises ==
    (pc = "done" /\ AllRendered /\ \A s \in shifts : RightClipped(s)) =>
        (HDR_error = "AssertionError" /\ synth_calls = <<>> /\ HDR_result = None)

C4_AnchorSelection ==
    \A i \in 1..Len(synth_calls) :
        LET first == synth_calls[i][1]
        IN  /\ 0 \in DOMAIN shift_mappings => first = shifted_tonemap_name(rawfile, 0)
            /\ 0 \notin DOMAIN shift_mappings =>
                  /\ first \in Range(shift_mappings)
                  /\ \A n \in Range(shift_mappings) : n = first \/ StrLess(first, n)

\* C4 witness: the zero-shift rendering survives between a darker and a
\* brighter survivor and leads the list.
C4_Witness ==
    /\ pc = "done"
    /\ Len(synth_calls) = 1
    /\ {-1, 0, 1} \subseteq DOMAIN shift_mappings
    /\ synth_calls[1][1] = shifted_tonemap_name(rawfile, 0)

\* C5: the candidates a..b are clipped at neither edge, the brighter ones at
\* the right edge only, the darker ones at the left edge only
WindowCase(a, b) ==
    /\ a <= b
    /\ \A s \in shifts :
        /\ (a <= s /\ s <= b) => (~RightClipped(s) /\ ~LeftClipped(s))
        /\ s > b => (RightClipped(s) /\ ~LeftClipped(s))
        /\ s < a => (LeftClipped(s) /\ ~RightClipped(s))

\* C5: in that case the bracket handed to synthesis is exactly the
\* renderings of a..b (the zero shift first if it is among them), and every
\* other rendering has been deleted from the disk.
C5_WindowSelected ==
    (pc = "done" /\ AllRendered) =>
        \A a, b \in shifts :
            WindowCase(a, b) =>
                /\ DOMAIN shift_mappings = a..b
                /\ DOMAIN disk = NamesOf(a..b)
                /\ Len(synth_calls) = 1
                /\ Len(synth_calls[1]) = (b - a) + 1
                /\ Range(synth_calls[1]) = NamesOf(a..b)
                /\ (a <= 0 /\ 0 <= b) => synth_calls[1][1] = shifted_tonemap_name(rawfile, 0)

\* C5 witness: only the renderings of shifts 0 and +1 pass both tests; the
\* bracket is those two, the zero shift first.
C5_Witness ==
    /\ pc = "done" /\ AllRendered
    /\ WindowCase(0, 1)
    /\ MinOf(shifts) < 0 /\ MaxOf(shifts) > 1
    /\ synth_calls = <<(<<shifted_tonemap_name(rawfile, 0), shifted_tonemap_name(rawfile, 1)>>)>>
    /\ DOMAIN disk = NamesOf({0, 1})

-----------------------------------------------------------------------------
(* Properties of create_script_from_file_list and of the scripts it writes *)

SuffixHDR == Chars("_HDR")
ExtTIFF == Chars(".TIFF")

\* the script file of the latest call is on disk
ScriptOnDisk ==
    /\ written # <<>>
    /\ script_file_name_of(call.HDR_input_files) \in DOMAIN script_disk

\* the last command of the template before the closing cd (lines 88-91)
FinalStage(c) ==
    IF c.delete_originals
    THEN <<WordRm>> \o c.HDR_input_files
    ELSE <<WordMv>> \o c.HDR_input_files \o <<WordComponents>>

\* the commands the template of lines 64-93 spells out for a call, with each
\* file name one word
IntendedCommands(c) ==
    LET out == output_file_of(c.HDR_input_files)
        jpg == JPG_of(out)
    IN  << <<WordSetOlddir>>, <<WordCd, wdir_of(StartDir, c.HDR_input_files)>> >>
        \o (IF c.suppress_align THEN <<>>
            ELSE << <<WordAlign>> \o WordAlignOpts \o c.HDR_input_files >>)
        \o << <<WordEnfuse, WordOutput \o out, WordAISGlob>>,
              <<WordConvert, out>> \o WordQuality \o <<jpg>>,
              <<WordRm, out>> >>
        \o (IF c.metadata_source_file = <<>> THEN <<>>
            ELSE << <<WordExiftool, WordTagsFrom, c.metadata_source_file, jpg>>,
                    <<WordExiftool>> \o WordOrientOpts \o <<jpg>>,
                    <<WordRm, WordBackups>> >>)
        \o << FinalStage(c), <<WordCd, WordOlddir>> >>

\* the index of the final stage among the commands bash read
FinalIndex == Len(sh_cmds) - 1

\* C6: a running script removes or archives originals in its final stage only
\* if every alignment, fusion and conversion command before it succeeded.
C6_OriginalsKeptOnFailure ==
    \A k \in DOMAIN sh_log :
        (k = FinalIndex /\ (sh_log[k].removed \cup sh_log[k].moved) # {})
            => \A j \in 1..(k - 1) :
                   sh_cmds[j][1] \in {WordAlign, WordEnfuse, WordConvert} => sh_log[j].ok

\* C7: the last command before the closing cd is rm of exactly the inputs
\* (delete_originals) or mv of exactly the inputs into HDR_components/
\* (otherwise), and no other rm or mv of the script names an input.
C7_FinalStageActsOnInputs ==
    sh_cmds # <<>> =>
        /\ sh_cmds[FinalIndex] = FinalStage(call)
        /\ \A k \in (DOMAIN sh_cmds) \ {FinalIndex} :
               sh_cmds[k][1] \in {WordRm, WordMv}
                   => Range(Tail(sh_cmds[k])) \cap Range(call.HDR_input_files) = {}

\* the stem of the first input without a leading HDR_AIS_, followed by _HDR
ExpectedBasename(HDR_input_files) ==
    LET stem == os_path_splitext(HDR_input_files[1])[1]
    IN  (IF HasPrefix(stem, PrefixHDR_AIS)
         THEN SubSeq(stem, Len(PrefixHDR_AIS) + 1, Len(stem))
         ELSE stem) \o SuffixHDR

\* C8: the script file is named after the first input's stem, less a leading
\* HDR_AIS_ and otherwise unchanged, followed by _HDR; so is the fused output.
C8_OutputBasename ==
    written # <<>> =>
        /\ ExpectedBasename(call.HDR_input_files) \o ExtSH \in DOMAIN script_disk
        /\ output_file_of(call.HDR_input_files)
               = ExpectedBasename(call.HDR_input_files) \o ExtTIFF

\* C9: the commands bash reads from a script are the commands of the template,
\* whatever characters the file names contain.
C9_NamesCannotChangeCommands ==
    sh_cmds # <<>> => sh_cmds = IntendedCommands(call)

NoNewlineNames == \A i \in DOMAIN call.HDR_input_files : "\n" \notin Range(call.HDR_input_files[i])

QuotingHoldsWithoutNewlines ==
    (sh_cmds # <<>> /\ NoNewlineNames) =>
        /\ sh_cmds = IntendedCommands(call)
        /\ C7_FinalStageActsOnInputs

-----------------------------------------------------------------------------
(* run_shell_scripts (postprocess_photos.py, lines 484-502).  The scripts   *)
(* of this part do nothing when run; what a generated script does is the    *)
(* subject of RunCommand.                                                   *)

ScriptPlain  == Chars("a.SH")
ScriptSpace  == Chars("my x.SH")
ScriptDash   == Chars("-b.SH")
ScriptLower  == Chars("d.sh")
ScriptHidden == Chars(".h.SH")

\* the files a directory may hold
RunnerNames == {ScriptPlain, ScriptSpace, ScriptDash, ScriptLower, ScriptHidden}

\* a script the kernel can start, and a file it refuses (no #! line)
TextRunnable == Chars("#!/bin/sh\n")
TextNoShebang == <<>>
TextHashBang == Chars("#!")

ScriptFiles == [text : {TextRunnable, TextNoShebang}, executable : BOOLEAN]

Directories == UNION {[S -> ScriptFiles] : S \in SUBSET RunnerNames}

PatternSH == <<"<*>">> \o Chars("SH")

\* glob.glob(pattern) for a pattern that does not begin with a dot: the names
\* that match, hidden names left out
glob(pattern, names) ==
    {name \in names : Matches(pattern, name) /\ name[1] # "."}

RECURSIVE ListOf(_)
\* the names of a set in the order the directory yields them
ListOf(S) ==
    IF S = {} THEN <<>>
    ELSE LET x == CHOOSE y \in S : TRUE IN <<x>> \o ListOf(S \ {x})

\* line 497
executable_scripts(files) ==
    sorted(ListOf({name \in glob(PatternSH, DOMAIN files) : files[name].executable}))

TextChmod == Chars("chmod a-x -R ")
WordRecursive == Chars("-R")

\* line 501: the command line handed to os.system
chmod_command(which_script) == TextChmod \o shlex_quote(which_script)

\* chmod a-x -R ...: chmod takes every word that begins with - for options;
\* a word other than -R that does is refused (invalid option or mode), and
\* then no file's mode is changed
chmod_a_minus_x(files, words) ==
    LET operands == SubSeq(words, 3, Len(words))
    IN  IF \E i \in 1..Len(operands) :
               operands[i][1] = "-" /\ operands[i] # WordRecursive
        THEN files
        ELSE [x \in DOMAIN files |->
                 IF x \in Range(operands)
                 THEN [files[x] EXCEPT !.executable = FALSE]
                 ELSE files[x]]

rss_frame == <<bracket_vars, call, spc, written, old_scripts, synth_result, run_vars, batch_vars, histo_vars,
              dsr_vars, mapper_vars, csf_vars, poll_vars>>

\* lines 492-497
Discover ==
    /\ rss_pc = "start"
    /\ has_components' = TRUE
    /\ file_list' = executable_scripts(script_disk)
    /\ rss_seen' = script_disk
    /\ rss_next' = 1
    /\ rss_pc' = IF executable_scripts(script_disk) = <<>> THEN "returned" ELSE "loop"
    /\ UNCHANGED <<rss_frame, script_disk, executed>>

\* lines 498-501, one iteration: subprocess.call raises OSError when the file
\* cannot be started, and nothing in run_shell_scripts catches it
RunNextScript ==
    /\ rss_pc = "loop"
    /\ LET which_script == file_list[rss_next]
       IN  IF ~HasPrefix(script_disk[which_script].text, TextHashBang)
           THEN /\ rss_pc' = "raised"
                /\ UNCHANGED <<script_disk, executed, rss_next>>
           ELSE /\ executed' = Append(executed, which_script)
                /\ script_disk' = chmod_a_minus_x(script_disk,
                                      ShellCommands(chmod_command(which_script))[1])
                /\ rss_next' = rss_next + 1
                /\ rss_pc' = IF rss_next = Len(file_list) THEN "returned" ELSE "loop"
    /\ UNCHANGED <<rss_frame, has_components, file_list, rss_seen>>

InitRunner ==
    /\ NoBracket
    /\ NoCall
    /\ script_disk \in Directories
    /\ rss_pc = "start"
    /\ has_components \in BOOLEAN
    /\ file_list = <<>>
    /\ rss_next = 1
    /\ executed = <<>>
    /\ rss_seen = EmptyMap
    /\ NoBatch
    /\ NoHisto
    /\ NoSpurious
    /\ NoMapper
    /\ NoFirstFile
    /\ NoPoll

NextRunner ==
    \/ Discover
    \/ RunNextScript

SpecRunner == InitRunner /\ [][NextRunner]_vars

\* C11: when run_shell_scripts has returned, the scripts it ran are exactly
\* the scripts that matched and were executable at line 497, each once and in
\* ascending order of name, and none of them is executable any more.
C11_RunsExecutableScriptsOnce ==
    rss_pc = "returned" =>
        /\ executed = sorted(ListOf({name \in glob(PatternSH, DOMAIN rss_seen) :
                                        rss_seen[name].executable}))
        /\ \A i \in 1..Len(executed) : ~script_disk[executed[i]].executable

\* for scripts whose names do not begin with a dash the same holds
RunnerHoldsForPlainNames ==
    (rss_pc = "returned" /\ \A i \in 1..Len(executed) : executed[i][1] # "-")
        => C11_RunsExecutableScriptsOnce

-----------------------------------------------------------------------------
(* create_HDR_script called for one raw file whose decoder output is given  *)
(* by a scene, in a directory where file operations may fail, with or       *)
(* without a tagged JPEG next to the raw file.                              *)

InitCall ==
    /\ avoid_darkness_adjustment \in BOOLEAN
    /\ clipping_threshold \in Thresholds
    /\ rawfile \in RawFiles
    /\ cwd = StartDir
    /\ olddir = None
    /\ pc = "start"
    /\ shift_factor = MinOf(shifts)
    /\ shift_mappings = EmptyMap
    /\ disk = EmptyMap
    /\ current_shift = MaxOf(shifts)
    /\ found_beginning = FALSE
    /\ found_end = FALSE
    /\ rendered = EmptyMap
    /\ deleted = <<>>
    /\ synth_calls = <<>>
    /\ HDR_result = None
    /\ HDR_error = "none"
    /\ scene \in Scenes
    /\ faulty_fs \in BOOLEAN
    /\ jpeg_tags \in {NoJPEG, FullTags, PartialTags}
    /\ original_ISO = None
    /\ original_Ev = None
    /\ attempts = <<>>
    /\ log = <<>>
    /\ script_disk = EmptyMap
    /\ NoCall
    /\ NoLater

SpecCall == InitCall /\ [][Next]_vars

RawTailInSubdir == Chars("b.cr2")

\* C13: when create_HDR_script is over, by return or by a caught exception,
\* the working directory is the one it was entered with.
C13_WorkingDirectoryRestored ==
    pc = "done" => cwd = StartDir

C13_Witness ==
    /\ pc = "done"
    /\ rawfile = RawTailInSubdir
    /\ HDR_error = "UnidentifiedImageError"
    /\ cwd = StartDir

\* every exit path the claim names is taken from the subdirectory
ExitPathsOfSubdirectory ==
    [e \in {"none", "AttributeError", "UnidentifiedImageError", "OSError"} |->
        pc = "done" /\ rawfile = RawTailInSubdir /\ HDR_error = e]

FallbackISO == 100
FallbackEv == 8

AttemptedShifts == [i \in 1..Len(attempts) |-> attempts[i].Ev_shift]
AllShiftsAscending == [i \in 1..NumShifts |-> MinOf(shifts) + i - 1]

\* C14: for a raw file without readable ISO and Ev tags, once the rendering
\* loop is over one rendering was attempted for each shift, none twice, each
\* with base ISO 100 and base Ev 8, and a warning was logged.
C14_FallbackBracket ==
    (jpeg_tags = NoJPEG /\ pc \notin {"start", "render"}) =>
        /\ AttemptedShifts = AllShiftsAscending
        /\ \A i \in 1..Len(attempts) :
               attempts[i].base_ISO = IfdTag(FallbackISO)
               /\ attempts[i].base_Ev = IfdTag(FallbackEv)
        /\ "WARNING" \in Range(log)

\* with darkness adjustment avoided, one rendering per shift is attempted
\* whatever the tags are
FullBracketWhenDarknessAvoided ==
    (avoid_darkness_adjustment /\ pc \notin {"start", "render"}) =>
        AttemptedShifts = AllShiftsAscending

-----------------------------------------------------------------------------
(* create_HDRs_from_raws (postprocess_photos.py, lines 505-519) with        *)
(* HDR_tonemap_from_raw (HDR_from_raw.py, lines 186-189): every raw file of *)
(* the working directory is given to create_HDR_script, and the script it   *)
(* returns is run.                                                          *)

BatchRawA == Chars("a.cr2")
BatchRawB == Chars("b.cr2")

\* file_utils.list_of_raws: the raw files of the working directory
BatchRaws == {BatchRawA, BatchRawB}

batch_frame == <<runner_vars, histo_vars, dsr_vars, mapper_vars, csf_vars, poll_vars, call, written, old_scripts, synth_result>>

\* lines 515-516 and HDR_from_raw.py, line 188: the loop takes the next raw
\* file and HDR_tonemap_from_raw calls create_HDR_script for it; the loop ends
\* after the last one.  What the decoder makes of the file belongs to the file.
NextRaw ==
    /\ batch_pc = "loop"
    /\ IF batch_next > Len(the_raws)
       THEN /\ batch_pc' = "returned"
            /\ UNCHANGED <<bracket_vars, tonemapped>>
       ELSE /\ batch_pc' = "bracket"
            /\ tonemapped' = Append(tonemapped, the_raws[batch_next])
            /\ rawfile' = the_raws[batch_next]
            /\ scene' \in Scenes
            /\ pc' = "start"
            /\ olddir' = None
            /\ shift_factor' = MinOf(shifts)
            /\ shift_mappings' = EmptyMap
            /\ current_shift' = MaxOf(shifts)
            /\ found_beginning' = FALSE
            /\ found_end' = FALSE
            /\ rendered' = EmptyMap
            /\ deleted' = <<>>
            /\ synth_calls' = <<>>
            /\ attempts' = <<>>
            /\ HDR_result' = None
            /\ HDR_error' = "none"
            /\ original_ISO' = None
            /\ original_Ev' = None
            /\ UNCHANGED <<avoid_darkness_adjustment, clipping_threshold, cwd, disk,
                           faulty_fs, jpeg_tags, log>>
    /\ UNCHANGED <<batch_frame, script_disk, spc, run_vars, the_raws, batch_next,
                   batch_error>>

\* HDR_from_raw.py, line 189, once create_HDR_script is back: os.path.abspath
\* raises TypeError for the None that create_HDR_script returns after an
\* error, and neither HDR_tonemap_from_raw nor create_HDRs_from_raws catches
\* it; otherwise the shell is started on the script
Tonemap ==
    /\ batch_pc = "bracket"
    /\ pc = "done"
    /\ IF HDR_result = None
       THEN /\ batch_pc' = "raised"
            /\ batch_error' = "TypeError"
            /\ UNCHANGED <<spc, run_vars>>
       ELSE /\ batch_pc' = "script"
            /\ sh_cmds' = ShellCommands(script_disk[os_path_split(HDR_result)[2]].text)
            /\ sh_pc' = 1
            /\ sh_cwd' = cwd
            /\ sh_olddir' = <<>>
            /\ sh_log' = <<>>
            /\ wd_files' = wd_files \cup DOMAIN disk \cup DOMAIN script_disk
            /\ spc' = "running"
            /\ UNCHANGED <<archive, batch_error>>
    /\ UNCHANGED <<bracket_vars, batch_frame, script_disk, the_raws, batch_next, tonemapped>>

\* HDR_from_raw.py, line 189, and line 515: subprocess.call returns whatever
\* the script's exit status is, and the loop goes on to the next raw file
ScriptReturns ==
    /\ batch_pc = "script"
    /\ spc = "ran"
    /\ spc' = "off"
    /\ disk' = [x \in (DOMAIN disk) \cap wd_files |-> disk[x]]
    /\ batch_next' = batch_next + 1
    /\ batch_pc' = "loop"
    /\ UNCHANGED <<avoid_darkness_adjustment, clipping_threshold, rawfile, cwd, olddir,
                   pc, shift_factor, shift_mappings, current_shift, found_beginning,
                   found_end, rendered, deleted, synth_calls, HDR_result, HDR_error,
                   env_vars, original_ISO, original_Ev, attempts, log>>
    /\ UNCHANGED <<batch_frame, script_disk, run_vars, the_raws, tonemapped, batch_error>>

\* line 512
InitBatch ==
    /\ avoid_darkness_adjustment \in BOOLEAN
    /\ clipping_threshold = DefaultClippingThreshold
    /\ rawfile = None
    /\ cwd = StartDir
    /\ olddir = None
    /\ pc = "off"
    /\ shift_factor = 0
    /\ shift_mappings = EmptyMap
    /\ disk = EmptyMap
    /\ current_shift = 0
    /\ found_beginning = FALSE
    /\ found_end = FALSE
    /\ rendered = EmptyMap
    /\ deleted = <<>>
    /\ synth_calls = <<>>
    /\ HDR_result = None
    /\ HDR_error = "none"
    /\ scene = "any"
    /\ faulty_fs = FALSE
    /\ jpeg_tags = FullTags
    /\ original_ISO = None
    /\ original_Ev = None
    /\ attempts = <<>>
    /\ log = <<>>
    /\ script_disk = EmptyMap
    /\ call = None
    /\ spc = "off"
    /\ old_scripts = {}
    /\ synth_result = NoResult
    /\ written = <<>>
    /\ wd_files \in SUBSET BatchRaws
    /\ archive = {}
    /\ sh_cmds = <<>>
    /\ sh_pc = 1
    /\ sh_cwd = None
    /\ sh_olddir = None
    /\ sh_log = <<>>
    /\ NoRunner
    /\ NoHisto
    /\ NoSpurious
    /\ NoMapper
    /\ NoFirstFile
    /\ NoPoll
    /\ batch_pc = "loop"
    /\ the_raws = sorted(ListOf(wd_files))
    /\ batch_next = 1
    /\ tonemapped = <<>>
    /\ batch_error = "none"

NextBatch ==
    \/ NextRaw
    \/ Next
    \/ Tonemap
    \/ RunCommand
    \/ ScriptReturns

SpecBatch == InitBatch /\ [][NextBatch]_vars

\* C12: when create_HDRs_from_raws is over, whether it returned or an
\* exception left it, every raw file of the directory has been given to
\* HDR_tonemap_from_raw: a failure for one raw file does not keep the
\* remaining ones from being processed.
C12_FailureScopedToOneRaw ==
    batch_pc \in {"returned", "raised"} => Range(tonemapped) = Range(the_raws)

\* without a failure the whole batch is processed
BatchProcessedWithoutFailure ==
    batch_pc = "returned" => tonemapped = the_raws

-----------------------------------------------------------------------------
(* The histogram functions (HDR_from_raw.py, lines 72-105) applied to the   *)
(* histogram of one image, for every width of the clipping zone.            *)

\* A family of images: every bucket holds base pixels, except that the
\* first k buckets hold low pixels and the last bucket holds last pixels.
FamilyHistogram(base, low, k, last) ==
    [i \in 1..NBuckets |-> IF i <= k THEN low ELSE IF i = NBuckets THEN last ELSE base]

MaxRun == 3

ImageHistograms ==
    {Histogram(kind) : kind \in HistoKinds} \cup
    {FamilyHistogram(base, low, k, last) :
        base \in {0, 2, 4}, low \in {0, 1, 3}, k \in {0, 1, MaxRun}, last \in {0, 1, 2, 3}}

\* widths of the clipping zone, from none of the buckets to all of them
ClippingWidths == {0, 1, NarrowClippingThreshold, NBuckets \div 2, DefaultClippingThreshold,
                   NBuckets - 1, NBuckets}

\* the histogram of the mirror image
reverse(h) == [i \in 1..Len(h) |-> h[Len(h) + 1 - i]]

MaxSmoothings == 2

\* lines 83-84 applied to the histogram, and then to its own result
ApplySmoothing ==
    /\ Len(smoothed) < MaxSmoothings
    /\ smoothed' = Append(smoothed, Smooth(IF smoothed = <<>> THEN image_histogram
                                           ELSE smoothed[Len(smoothed)]))
    /\ UNCHANGED <<image_histogram, right_clipping, left_clipping_reversed>>

\* line 95
TestRightEdge ==
    /\ right_clipping = <<>>
    /\ right_clipping' = <<right_edge_clipping_at(image_histogram, clipping_threshold)>>
    /\ UNCHANGED <<image_histogram, smoothed, left_clipping_reversed>>

\* line 105, for the mirror image
TestLeftEdgeReversed ==
    /\ left_clipping_reversed = <<>>
    /\ left_clipping_reversed' =
           <<left_edge_clipping_at(reverse(image_histogram), clipping_threshold)>>
    /\ UNCHANGED <<image_histogram, smoothed, right_clipping>>

InitHisto ==
    /\ avoid_darkness_adjustment = FALSE
    /\ clipping_threshold \in ClippingWidths
    /\ rawfile = None
    /\ cwd = StartDir
    /\ olddir = None
    /\ pc = "off"
    /\ shift_factor = 0
    /\ shift_mappings = EmptyMap
    /\ disk = EmptyMap
    /\ current_shift = 0
    /\ found_beginning = FALSE
    /\ found_end = FALSE
    /\ rendered = EmptyMap
    /\ deleted = <<>>
    /\ synth_calls = <<>>
    /\ HDR_result = None
    /\ HDR_error = "none"
    /\ scene = "any"
    /\ faulty_fs = FALSE
    /\ jpeg_tags = NoJPEG
    /\ original_ISO = None
    /\ original_Ev = None
    /\ attempts = <<>>
    /\ log = <<>>
    /\ script_disk = EmptyMap
    /\ NoCall
    /\ NoRunner
    /\ NoBatch
    /\ NoSpurious
    /\ NoMapper
    /\ NoFirstFile
    /\ NoPoll
    /\ image_histogram \in ImageHistograms
    /\ smoothed = <<>>
    /\ right_clipping = <<>>
    /\ left_clipping_reversed = <<>>

NextHisto ==
    /\ \/ ApplySmoothing
       \/ TestRightEdge
       \/ TestLeftEdgeReversed
    /\ UNCHANGED <<bracket_vars, synth_vars, run_vars, runner_vars, batch_vars, dsr_vars,
                   mapper_vars, csf_vars, poll_vars>>

SpecHisto == InitHisto /\ [][NextHisto]_vars

\* C15: for every 256-bucket histogram and every width of the clipping zone
\* from 0 to 256, is_right_edge_clipping of the histogram equals
\* is_left_edge_clipping of the reversed histogram.
C15_ClippingTestsAreDual ==
    (right_clipping # <<>> /\ left_clipping_reversed # <<>>) =>
        right_clipping = left_clipping_reversed

\* a lopsided histogram, which the two tests tell apart when it is not reversed
C15_Witness ==
    /\ right_clipping = <<TRUE>>
    /\ left_clipping_reversed = <<TRUE>>
    /\ clipping_threshold = NarrowClippingThreshold
    /\ ~left_edge_clipping_at(image_histogram, clipping_threshold)

\* C16: smoothing is idempotent: the smoothing step applied to a smoothed
\* histogram returns it unchanged.
C16_SmoothingIdempotent ==
    Len(smoothed) = MaxSmoothings => smoothed[2] = smoothed[1]

\* the first smoothing dropped some buckets of the histogram and kept others
C16_Witness ==
    /\ Len(smoothed) = MaxSmoothings
    /\ smoothed[1] # image_histogram
    /\ \E i \in 1..NBuckets : smoothed[1][i] > 0

-----------------------------------------------------------------------------
(* delete_spurious_raw_files (postprocess_photos.py, lines 294-342)         *)

\* line 112
maximum_short_side_length == 5000

\* photo_file_utils.py, lines 23-24 (of the raw extensions, the two the
\* directory has files of)
raw_photo_extensions == <<Chars("CR2"), Chars("cr2")>>
jpeg_extensions == <<Chars("jpg"), Chars("JPG"), Chars("jpeg"), Chars("JPEG"), Chars("jpe"),
                     Chars("JPE")>>

RawPaired   == Chars("a.cr2")
RawUpper    == Chars("b.CR2")
RawOrphan   == Chars("c.cr2")
JpegPaired  == Chars("a.jpg")
JpegSecond  == Chars("a.JPG")
JpegUpper   == Chars("b.JPG")

PhotoRaws  == {RawPaired, RawUpper, RawOrphan}
PhotoJpegs == {JpegPaired, JpegSecond, JpegUpper}

\* max(im.size) of a JPEG: just below the limit, or at it; 0 for a file that
\* Image.open cannot identify as an image
NotAnImage == 0
Sides == {NotAnImage, maximum_short_side_length - 1, maximum_short_side_length}

PhotoDirs ==
    UNION {{[x \in R \cup J |-> IF x \in J THEN sides[x] ELSE NotAnImage] :
                sides \in [J -> Sides]} :
           R \in SUBSET PhotoRaws, J \in SUBSET PhotoJpegs}

Dot == <<".">>

RECURSIVE find_alt_version(_, _, _)
\* photo_file_utils.py, lines 169-185: the first of the names
\* splitext(orig_name)[0] + '.' + extension that exists, or None
find_alt_version(orig_name, alternate_extensions, names) ==
    IF alternate_extensions = <<>> THEN None
    ELSE LET altfile == os_path_splitext(orig_name)[1] \o Dot \o Head(alternate_extensions)
         IN  IF altfile \in names THEN altfile
             ELSE find_alt_version(orig_name, Tail(alternate_extensions), names)

\* photo_file_utils.py, lines 188-193
list_of_raws(names) ==
    sorted(ListOf(UNION {glob(<<"<*>">> \o raw_photo_extensions[i], names) :
                            i \in 1..Len(raw_photo_extensions)}))

\* os.remove(name)
os_remove(files, name) == [x \in (DOMAIN files) \ {name} |-> files[x]]

dsr_frame == <<bracket_vars, synth_vars, run_vars, runner_vars, batch_vars, histo_vars,
               mapper_vars, csf_vars, poll_vars, raw_must_be_paired_with_JPEG,
               delete_small_raws>>

\* lines 327-328, and line 333 when the first action is turned off or has
\* nothing to do
ListOrphans ==
    /\ dsr_pc = "start"
    /\ LET orphan_raws == SelectSeq(list_of_raws(DOMAIN photo_dir),
                               LAMBDA f : find_alt_version(f, jpeg_extensions,
                                                           DOMAIN photo_dir) = None)
       IN  IF raw_must_be_paired_with_JPEG /\ orphan_raws # <<>>
           THEN /\ dsr_raws' = orphan_raws
                /\ dsr_pc' = "orphans"
           ELSE /\ dsr_raws' = <<>>
                /\ dsr_pc' = "list"
    /\ dsr_next' = 1
    /\ UNCHANGED <<dsr_frame, photo_dir, removed>>

\* lines 329-331, one iteration
RemoveOrphan ==
    /\ dsr_pc = "orphans"
    /\ photo_dir' = os_remove(photo_dir, dsr_raws[dsr_next])
    /\ removed' = Append(removed, [file |-> dsr_raws[dsr_next], line |-> 331,
                                   jpeg |-> None, side |-> 0])
    /\ dsr_next' = dsr_next + 1
    /\ dsr_pc' = IF dsr_next = Len(dsr_raws) THEN "list" ELSE "orphans"
    /\ UNCHANGED <<dsr_frame, dsr_raws>>

\* lines 333-334
ListRaws ==
    /\ dsr_pc = "list"
    /\ dsr_raws' = IF delete_small_raws THEN list_of_raws(DOMAIN photo_dir) ELSE <<>>
    /\ dsr_next' = 1
    /\ dsr_pc' = IF delete_small_raws /\ list_of_raws(DOMAIN photo_dir) # <<>>
                 THEN "small" ELSE "returned"
    /\ UNCHANGED <<dsr_frame, photo_dir, removed>>

\* lines 335-342, one iteration: Image.open raises UnidentifiedImageError for
\* a file that is no image, and nothing catches it
CheckRaw ==
    /\ dsr_pc = "small"
    /\ LET which_raw == dsr_raws[dsr_next]
           corresponding_jpg == find_alt_version(which_raw, jpeg_extensions, DOMAIN photo_dir)
           more == IF dsr_next = Len(dsr_raws) THEN "returned" ELSE "small"
       IN  IF corresponding_jpg # None
           THEN IF photo_dir[corresponding_jpg] = NotAnImage
                THEN /\ dsr_pc' = "raised"
                     /\ UNCHANGED <<photo_dir, removed>>
                ELSE IF photo_dir[corresponding_jpg] < maximum_short_side_length
                THEN /\ photo_dir' = os_remove(photo_dir, which_raw)
                     /\ removed' = Append(removed,
                                          [file |-> which_raw, line |-> 340,
                                           jpeg |-> corresponding_jpg,
                                           side |-> photo_dir[corresponding_jpg]])
                     /\ dsr_pc' = more
                ELSE /\ dsr_pc' = more
                     /\ UNCHANGED <<photo_dir, removed>>
           ELSE /\ photo_dir' = os_remove(photo_dir, which_raw)
                /\ removed' = Append(removed, [file |-> which_raw, line |-> 342,
                                               jpeg |-> None, side |-> 0])
                /\ dsr_pc' = more
    /\ dsr_next' = dsr_next + 1
    /\ UNCHANGED <<dsr_frame, dsr_raws>>

InitSpurious ==
    /\ NoBracket
    /\ script_disk = EmptyMap
    /\ NoCall
    /\ NoRunner
    /\ NoBatch
    /\ NoHisto
    /\ NoMapper
    /\ NoFirstFile
    /\ NoPoll
    /\ raw_must_be_paired_with_JPEG \in BOOLEAN
    /\ delete_small_raws \in BOOLEAN
    /\ photo_dir \in PhotoDirs
    /\ dsr_pc = "start"
    /\ dsr_raws = <<>>
    /\ dsr_next = 1
    /\ removed = <<>>

NextSpurious ==
    \/ ListOrphans
    \/ RemoveOrphan
    \/ ListRaws
    \/ CheckRaw

SpecSpurious == InitSpurious /\ [][NextSpurious]_vars

\* C17: with raw_must_be_paired_with_JPEG False, no raw file is deleted on
\* the ground that it has no corresponding JPEG: every raw file that is
\* deleted has a corresponding JPEG whose longest side is below
\* maximum_short_side_length (and one is deleted only if delete_small_raws
\* is True).
C17_OnlySmallPairedRawsDeleted ==
    ~raw_must_be_paired_with_JPEG =>
        \A i \in 1..Len(removed) :
            /\ delete_small_raws
            /\ removed[i].jpeg # None
            /\ removed[i].side < maximum_short_side_length

\* a raw file whose JPEG is not small is never deleted, whatever the settings
RawWithLargeJpegKept ==
    \A i \in 1..Len(removed) :
        removed[i].jpeg = None \/ removed[i].side < maximum_short_side_length

\* with both actions turned off nothing is deleted
NothingDeletedWhenTurnedOff ==
    (~raw_must_be_paired_with_JPEG /\ ~delete_small_raws) => removed = <<>>

-----------------------------------------------------------------------------
(* FilenameMapper (photo_file_utils.py, lines 197-277) and                  *)
(* restore_file_names (postprocess_photos.py, lines 396-406): files of one  *)
(* directory are renamed through rename_and_map, each to a name no file     *)
(* has, and then restore_file_names is run.                                 *)

MapperNames == {"a", "b", "c", "d"}
MapperFiles == {"X", "Y"}
MaxRenames == 3

Keys(m) == {m[i][1] : i \in 1..Len(m)}
Values(m) == {m[i][2] : i \in 1..Len(m)}

\* self.mapping[key] = value: a new key goes to the end of the dict, an old
\* one keeps its place
dict_set(m, key, value) ==
    IF key \in Keys(m)
    THEN [i \in 1..Len(m) |-> IF m[i][1] = key THEN <<key, value>> ELSE m[i]]
    ELSE Append(m, <<key, value>>)

\* photo_file_utils.py, lines 255-265
add_mapping(m, orig_name, new_name) ==
    IF orig_name \in Values(m)
    THEN [i \in 1..Len(m) |-> IF m[i][2] = orig_name THEN <<m[i][1], new_name>> ELSE m[i]]
    ELSE dict_set(m, orig_name, new_name)

\* os.rename(src, dst): a file that has the name dst is replaced
os_rename(files, src, dst) ==
    IF src = dst THEN files
    ELSE [x \in ((DOMAIN files) \ {src}) \cup {dst} |-> IF x = dst THEN files[src] ELSE files[x]]

mapper_frame == <<bracket_vars, synth_vars, run_vars, runner_vars, batch_vars, histo_vars,
                  dsr_vars, csf_vars, poll_vars, first_names>>

\* photo_file_utils.py, lines 267-270, for a file that exists and a name that
\* no file has
rename_and_map ==
    /\ mapper_pc = "renaming"
    /\ rename_calls < MaxRenames
    /\ rename_calls' = rename_calls + 1
    /\ \E orig_name \in DOMAIN dir_files, new_name \in MapperNames \ DOMAIN dir_files :
          /\ dir_files' = os_rename(dir_files, orig_name, new_name)
          /\ mapping' = add_mapping(mapping, orig_name, new_name)
          /\ renamed' = renamed \cup {dir_files[orig_name]}
    /\ UNCHANGED <<mapper_frame, mapper_pc, restore_next>>

\* restore_file_names is called (postprocess_photos.py, line 403)
BeginRestore ==
    /\ mapper_pc = "renaming"
    /\ mapper_pc' = IF mapping = <<>> THEN "restored" ELSE "restoring"
    /\ restore_next' = 1
    /\ UNCHANGED <<mapper_frame, mapping, dir_files, renamed, rename_calls>>

\* postprocess_photos.py, lines 403-406, one iteration
RestoreNext ==
    /\ mapper_pc = "restoring"
    /\ LET original_name == mapping[restore_next][1]
           new_name == mapping[restore_next][2]
       IN  dir_files' = IF new_name \in DOMAIN dir_files
                        THEN os_rename(dir_files, new_name, original_name)
                        ELSE dir_files
    /\ restore_next' = restore_next + 1
    /\ mapper_pc' = IF restore_next = Len(mapping) THEN "restored" ELSE "restoring"
    /\ UNCHANGED <<mapper_frame, mapping, renamed, rename_calls>>

InitMapper ==
    /\ NoBracket
    /\ script_disk = EmptyMap
    /\ NoCall
    /\ NoRunner
    /\ NoBatch
    /\ NoHisto
    /\ NoSpurious
    /\ NoFirstFile
    /\ NoPoll
    /\ mapping = <<>>
    /\ dir_files \in UNION {[S -> MapperFiles] : S \in SUBSET MapperNames}
    /\ \A x, y \in DOMAIN dir_files : dir_files[x] = dir_files[y] => x = y
    /\ mapper_pc = "renaming"
    /\ restore_next = 1
    /\ first_names = dir_files
    /\ renamed = {}
    /\ rename_calls = 0

NextMapper ==
    \/ rename_and_map
    \/ BeginRestore
    \/ RestoreNext

SpecMapper == InitMapper /\ [][NextMapper]_vars

\* the name the file has now, and the name it had before the first renaming
CurrentName(f) == CHOOSE x \in DOMAIN dir_files : dir_files[x] = f
FirstName(f) == CHOOSE x \in DOMAIN first_names : first_names[x] = f

\* every file renamed at least once has exactly one entry, from its original
\* name to its current name, and the mapping has no other entries
MappingTracksOriginals ==
    mapper_pc = "renaming" =>
        /\ \A f \in renamed :
              Cardinality({i \in 1..Len(mapping) : mapping[i][1] = FirstName(f)}) = 1
              /\ <<FirstName(f), CurrentName(f)>> \in Range(mapping)
        /\ Keys(mapping) = {FirstName(f) : f \in renamed}

\* C18: after any sequence of rename_and_map calls, each renaming an existing
\* file to a name no file has, the mapping holds for every file renamed at
\* least once exactly one entry from its original name to its current name
\* and no entry for an intermediate name, and restore_file_names returns
\* every file to its original name.
C18_RestoreReturnsOriginalNames ==
    /\ MappingTracksOriginals
    /\ mapper_pc = "restored" => dir_files = first_names

\* restore_file_names loses no file when no file was given a name that was
\* the original name of another renamed file
NoOriginalNameReused ==
    mapper_pc = "restored" =>
        \/ dir_files = first_names
        \/ \E i, k \in 1..Len(mapping) : i # k /\ mapping[i][2] = mapping[k][1]

-----------------------------------------------------------------------------
(* Properties of the two scans of create_HDR_script (lines 137-165) *)

\* the Ev shifts whose renderings have not been deleted
Surviving == shifts \ Range(deleted)

Contiguous(S) == \A a, b \in S : \A c \in shifts : (a < c /\ c < b) => c \in S

\* C19: at the end of the downward scan and after both scans, the Ev shifts
\* whose renderings have not been deleted form a contiguous interval of the
\* configured range: no deleted candidate lies between two surviving ones.
C19_SurvivorsContiguous ==
    (pc \in {"begin_up", "select"} \/ (pc = "done" /\ HDR_result # None)) =>
        Contiguous(Surviving)

\* both scans deleted renderings, on either side of at least two survivors
C19_Witness ==
    /\ pc = "select"
    /\ Cardinality(Surviving) >= 2
    /\ \E s \in Range(deleted) : \A t \in Surviving : s < t
    /\ \E s \in Range(deleted) : \A t \in Surviving : s > t

\* one step of a scan
ScanStep == pc \in {"down", "up"}

\* C20: within a scan the state only moves forward: found_beginning never
\* returns to false, found_end becomes true only while found_beginning is
\* true and never returns to false, and the scan moves one shift further in
\* its direction at every iteration, inside the configured range, so that
\* it visits each shift at most once.
C20_ScanStateMonotone ==
    /\ [](ScanStep => current_shift \in shifts)
    /\ [][ScanStep =>
            /\ found_beginning => found_beginning'
            /\ found_end => found_end'
            /\ (found_end' /\ ~found_end) => found_beginning
            /\ (pc' = "down" => current_shift' = current_shift - 1)
            /\ (pc' = "up" => current_shift' = current_shift + 1)
            /\ (pc' \notin {"down", "up"} /\ HDR_error' = "none") =>
                   current_shift \in {MinOf(shifts), MaxOf(shifts)}]_vars

\* an upward scan that went through all three states
C20_Witness ==
    /\ pc = "select"
    /\ found_beginning
    /\ found_end
    /\ Len(deleted) >= 2

\* What lines 137-165 are meant to delete, from the renderings alone: R
\* and L are the sets of right-clipped and of left-clipped shifts.
\* The downward scan begins at the brightest rendering that is not
\* right-clipped and ends at the first left-clipped one below it.
DownDeletedOf(R, L) ==
    LET beginnings == shifts \ R
        ends == IF beginnings = {} THEN {}
                ELSE {s \in L : s < MaxOf(beginnings)}
    IN  IF ends = {} THEN {} ELSE {s \in shifts : s <= MaxOf(ends)}

\* The upward scan goes over what the downward scan left, the set S: it
\* begins at the darkest rendering that is not left-clipped and ends at the
\* first right-clipped one above it.
UpDeletedOf(S, R, L) ==
    LET beginnings == S \ L
        ends == IF beginnings = {} THEN {}
                ELSE {s \in S \cap R : s > MinOf(beginnings)}
    IN  IF ends = {} THEN {} ELSE {s \in S : s >= MinOf(ends)}

RightClippedShifts == {s \in shifts : RightClipped(s)}
LeftClippedShifts == {s \in shifts : LeftClipped(s)}

DownDeleted == DownDeletedOf(RightClippedShifts, LeftClippedShifts)
UpDeleted == UpDeletedOf(shifts \ DownDeleted, RightClippedShifts, LeftClippedShifts)

\* C21: the downward scan deletes a candidate if and only if it is the first
\* left-clipped candidate met after the first candidate that is not
\* right-clipped, or is darker than that one; the upward scan deletes only
\* the first right-clipped candidate met after the first one that is not
\* left-clipped, and every brighter one; and no candidate is deleted before
\* found_beginning.
C21_ScansDeleteExactlyPastTheEnd ==
    /\ [](pc = "begin_up" => Range(deleted) = DownDeleted)
    /\ [](pc = "select" => Range(deleted) = DownDeleted \cup UpDeleted)
    /\ [][deleted' # deleted => found_beginning]_vars

\* both scans deleted, the downward one more than the candidate it ended at
C21_Witness ==
    /\ pc = "select"
    /\ Cardinality(DownDeleted) >= 2
    /\ UpDeleted # {}
    /\ Range(deleted) = DownDeleted \cup UpDeleted

\* C22: every candidate that remains in the selected bracket exhibits
\* neither right-edge clipping nor left-edge clipping: every candidate that
\* fails a clipping test has been discarded.
C22_SelectedAreUnclipped ==
    pc = "select" =>
        \A s \in DOMAIN shift_mappings : ~RightClipped(s) /\ ~LeftClipped(s)

-----------------------------------------------------------------------------
(* Properties of the histogram functions *)

\* the pixels of a histogram, and those in its T brightest and T darkest buckets
Mass(h) == SumRange(h, 1, NBuckets)
BrightMass(h, T) == Mass(h) - SumRange(h, 1, NBuckets - T)
DarkMass(h, T) == Mass(h) - SumRange(h, T + 1, NBuckets)

\* C23: both clipping tests are inclusive at the boundary: a histogram is
\* reported as clipped exactly when the pixels inside the T edge buckets are
\* at least as many as the remaining ones, so a tie is clipped, an edge sum
\* smaller by any amount is not, and an all-zero histogram is clipped on
\* both edges.
C23_ClippingInclusiveAtBoundary ==
    /\ right_clipping # <<>> =>
          (right_clipping[1] <=>
              2 * BrightMass(image_histogram, clipping_threshold) >= Mass(image_histogram))
    /\ left_clipping_reversed # <<>> =>
          (left_clipping_reversed[1] <=>
              2 * DarkMass(reverse(image_histogram), clipping_threshold)
                  >= Mass(image_histogram))
    /\ (Mass(image_histogram) = 0 /\ right_clipping # <<>> /\ left_clipping_reversed # <<>>)
          => (right_clipping[1] /\ left_clipping_reversed[1])

\* a tie between the edge zone and the rest, with pixels on both sides
C23_Witness ==
    /\ right_clipping = <<TRUE>>
    /\ left_clipping_reversed = <<TRUE>>
    /\ Mass(image_histogram) > 0
    /\ 2 * BrightMass(image_histogram, clipping_threshold) = Mass(image_histogram)

\* the other cases of C23 happen: one pixel short of a tie, and no pixel at all
OnePixelShortOfTie ==
    /\ right_clipping = <<FALSE>>
    /\ 2 * BrightMass(image_histogram, clipping_threshold) = Mass(image_histogram) - 1
AllZeroTested ==
    /\ right_clipping = <<TRUE>>
    /\ left_clipping_reversed = <<TRUE>>
    /\ Mass(image_histogram) = 0


\* v < (sum(h) / len(h)) - 2 * statistics.stdev(h), in the integer arithmetic
\* of AboveThreshold: d < -2*sqrt(Q/(n-1)), i.e. d < 0 and (n-1)*d^2 > 4*Q.
BelowThreshold(n, S, Q, v) ==
    LET d == n * v - S
    IN  d < 0 /\ (n - 1) * d * d > 4 * Q

ZeroedBelowThreshold(h, g) ==
    LET n == Len(h)
        S == SumRange(h, 1, n)
        Q == SumRange(SqDev(h, n, S), 1, n)
    IN  IF S >= 0 /\ Q >= 0
        THEN \A i \in 1..n : g[i] = IF BelowThreshold(n, S, Q, h[i]) THEN 0 ELSE h[i]
        ELSE FALSE

\* C24: smoothing zeroes exactly the buckets whose count is below
\* mean - 2*stddev of the full histogram and leaves every other bucket as it
\* was; in particular a bucket equal to the mean of a constant histogram is
\* not altered.
C24_SmoothingZeroesExactlyBelowThreshold ==
    smoothed # <<>> => ZeroedBelowThreshold(image_histogram, smoothed[1])

\* a constant histogram of non-empty buckets, smoothed
ConstantHistogramSmoothed ==
    /\ smoothed # <<>>
    /\ image_histogram[1] > 0
    /\ \A i \in 1..NBuckets : image_histogram[i] = image_histogram[1]

\* the smoothed constant histogram has lost every pixel
ConstantHistogramEmptied ==
    ConstantHistogramSmoothed /\ \A i \in 1..NBuckets : smoothed[1][i] = 0

\* apart from a constant histogram, no bucket of the family is equal to the
\* threshold, and smoothing zeroes exactly what is below it
OnlyConstantHistogramsDiffer ==
    (smoothed # <<>> /\ ~ConstantHistogramSmoothed)
        => ZeroedBelowThreshold(image_histogram, smoothed[1])

-----------------------------------------------------------------------------
(* The order of the steps of a generated script *)

HasCommand(word) == \E k \in DOMAIN sh_cmds : sh_cmds[k][1] = word

\* C25: for every combination of flags the commands bash has read from the
\* script when it starts on them end with the steps of the template in their order: OLDDIR is set,
\* cd to the first input's directory, alignment over the inputs in list order
\* (present iff not suppress_align), fusion, conversion, removal of the
\* floating-point intermediate, the two exiftool steps and the removal of
\* their backups (present iff a metadata source is given), rm or mv of the
\* originals, and cd back to OLDDIR as the last command.
C25_StepsInTemplateOrder ==
    (spc = "running" /\ sh_pc = 1) =>
        LET steps == IntendedCommands(call)
            n     == Len(sh_cmds)
        IN  /\ n >= Len(steps)
            /\ SubSeq(sh_cmds, n - Len(steps) + 1, n) = steps
            /\ sh_cmds[n] = <<WordCd, WordOlddir>>
            /\ HasCommand(WordAlign) <=> ~call.suppress_align
            /\ HasCommand(WordExiftool) <=> call.metadata_source_file # <<>>
            /\ (\E k \in DOMAIN sh_cmds : sh_cmds[k] = <<WordRm, WordBackups>>)
                   <=> call.metadata_source_file # <<>>

\* a script with every optional step, for two inputs
C25_Witness ==
    /\ spc = "running" /\ sh_pc = 1
    /\ ~call.suppress_align
    /\ call.metadata_source_file # <<>>
    /\ Len(call.HDR_input_files) = MaxFiles
    /\ Len(sh_cmds) = 11

\* a script with no optional step
ShortestScriptRead ==
    /\ sh_cmds # <<>>
    /\ call.suppress_align
    /\ call.metadata_source_file = <<>>
    /\ Len(sh_cmds) = 7

\* a script whose steps follow commands read from the header comment
StepsAfterHeaderCommands ==
    /\ sh_cmds # <<>>
    /\ Len(sh_cmds) > Len(IntendedCommands(call))

-----------------------------------------------------------------------------
(* A rendering that failed *)

\* the shifts whose rendering is a file that is no image
FailedShifts == {s \in DOMAIN rendered : rendered[s] = Unreadable}

\* C26: when the rendering of one candidate failed and the remaining
\* renderings are usable, the call still ends with a script, written for a
\* bracket of the remaining candidates without the failed one.
C26_FailedRenderExcludesOnlyThatCandidate ==
    (/\ pc = "done"
     /\ avoid_darkness_adjustment
     /\ ~faulty_fs
     /\ clipping_threshold = NarrowClippingThreshold
     /\ scene = "broken")
        => /\ HDR_result # None
           /\ HDR_error = "none"
           /\ Len(synth_calls) = 1
           /\ Range(synth_calls[1]) = NamesOf(shifts \ FailedShifts)

\* the call ended by the exception of Image.open, with no script and with
\* every rendering left on disk
FailedRenderEndsTheCall ==
    /\ pc = "done"
    /\ scene = "broken"
    /\ Cardinality(FailedShifts) = 1
    /\ HDR_error = "UnidentifiedImageError"
    /\ HDR_result = None
    /\ synth_calls = <<>>
    /\ DOMAIN disk = NamesOf(shifts)

\* a failed rendering is never survived: every call that met one ends without a script
FailedRenderNeverSurvived ==
    (pc = "done" /\ FailedShifts # {} /\ avoid_darkness_adjustment) => HDR_result = None

-----------------------------------------------------------------------------
(* Old-script housekeeping of create_script_from_file_list *)

\* C27: when a call has returned, whatever became of the two housekeeping steps, it returned the
\* new script's name and the script is on disk, executable, with the text
\* just written; a step that failed printed its message and nothing more;
\* and each step was attempted whatever the other one did: a file to delete
\* is no longer in the directory, and a file to move is no longer there
\* unless old_scripts/ holds a file of its name.
C27_HousekeepingIsBestEffort ==
    (spc = "idle" /\ synth_result # NoResult) =>
        LET name == script_file_name_of(call.HDR_input_files)
        IN  /\ synth_result.returned = name
            /\ name \in DOMAIN script_disk
            /\ script_disk[name].executable
            /\ script_disk[name].text = written[Len(written)]
            /\ Range(synth_result.printed) \subseteq {ErrorUnableToMove, ErrorUnableToDelete}
            /\ call.file_to_delete # <<>> => call.file_to_delete \notin DOMAIN script_disk
            /\ call.file_to_move # <<>> =>
                   \/ call.file_to_move \notin DOMAIN script_disk
                   \/ call.file_to_move \in old_scripts
            /\ (call.file_to_move = <<>> /\ call.file_to_delete = <<>>)
                   => OldScript \in DOMAIN script_disk

\* the first call could not move its file_to_move and deleted its file_to_delete
C27_Witness ==
    /\ spc = "idle"
    /\ Len(written) = 1
    /\ synth_result # NoResult
    /\ synth_result.printed = <<ErrorUnableToMove>>
    /\ call.file_to_delete = OldScript
    /\ OldScript \notin DOMAIN script_disk
    /\ OldScript \notin old_scripts
    /\ synth_result.returned \in DOMAIN script_disk

\* both steps of a call failed
BothHousekeepingStepsFailed ==
    /\ synth_result # NoResult
    /\ synth_result.printed = <<ErrorUnableToMove, ErrorUnableToDelete>>

\* the file was moved, and could then not be deleted
MovedThenNotDeleted ==
    /\ synth_result # NoResult
    /\ synth_result.printed = <<ErrorUnableToDelete>>
    /\ OldScript \in old_scripts

-----------------------------------------------------------------------------
(* create_script_from_first_file (create_HDR_script.py, lines 117-146),     *)
(* called from StartDir.  StartDir and its subdirectory d hold the same     *)
(* photos; there is no directory nodir.                                     *)

total_number_of_files == 5

PatternJpgLower == <<"<*>">> \o Chars("jpg")
PatternJpgUpper == <<"<*>">> \o Chars("JPG")

PhotoA == Chars("a.JPG")
PhotoB == Chars("b.jpg")
PhotoC == Chars("c.jpg")
PhotoPng == Chars("x.png")

\* the files of the directory the call works in
PhotoNames == {PhotoA, PhotoB, PhotoC, PhotoPng}

ExistingDirs == {StartDir, realpath(StartDir, Chars("d"))}

FirstFileArgs ==
    {PhotoA, PhotoB, PhotoPng, Chars("d/a.JPG"), Chars("d/b.jpg"), Chars("d/c.jpg"),
     Chars("d/x.png"), Chars("d/z.jpg"), Chars("nodir/b.jpg")}

\* line 137
files_in_directory ==
    sorted(ListOf(glob(PatternJpgLower, PhotoNames)) \o ListOf(glob(PatternJpgUpper, PhotoNames)))

\* list.index: the first position of x in l, 0 standing for ValueError
index(l, x) ==
    IF x \in Range(l) THEN MinOf({k \in DOMAIN l : l[k] = x}) ELSE 0

\* l[start : start + n] for a position start counted from 1
slice(l, start, n) ==
    SubSeq(l, start, IF start + n - 1 > Len(l) THEN Len(l) ELSE start + n - 1)

csf_frame == <<avoid_darkness_adjustment, clipping_threshold, rawfile, olddir, pc,
               shift_factor, shift_mappings, disk, current_shift, found_beginning,
               found_end, rendered, deleted, synth_calls, HDR_result, HDR_error,
               env_vars, original_ISO, original_Ev, attempts, log, spc, run_vars,
               runner_vars, batch_vars, histo_vars, dsr_vars, mapper_vars, poll_vars,
               num_files>>

\* an exception leaves create_script_from_first_file: nothing catches it, and
\* no statement is run on its way out
csf_raise(e) ==
    /\ csf_pc' = "raised"
    /\ csf_error' = e
    /\ UNCHANGED cwd

\* lines 128-131
ChangeToFirstFilesDirectory ==
    /\ csf_pc = "start"
    /\ oldpath' = cwd
    /\ LET newdir == os_path_split(first_file)[1]
       IN  IF newdir = <<>>
           THEN /\ first_file' = os_path_split(first_file)[2]
                /\ csf_pc' = "select"
                /\ UNCHANGED <<cwd, csf_error>>
           ELSE IF realpath(cwd, newdir) \in ExistingDirs
           THEN /\ first_file' = os_path_split(first_file)[2]
                /\ cwd' = realpath(cwd, newdir)
                /\ csf_pc' = "select"
                /\ UNCHANGED csf_error
           ELSE /\ first_file' = os_path_split(first_file)[2]
                /\ csf_raise("FileNotFoundError")
    /\ UNCHANGED <<csf_frame, synth_vars>>

\* lines 137-139
SelectInputFiles ==
    /\ csf_pc = "select"
    /\ LET selected_file_position == index(files_in_directory, os_path_split(first_file)[2])
       IN  IF selected_file_position = 0
           THEN /\ csf_raise("ValueError")
                /\ UNCHANGED call
           ELSE /\ call' = [HDR_input_files |-> slice(files_in_directory,
                                                      selected_file_position, num_files),
                            metadata_source_file |-> <<>>,
                            delete_originals |-> FALSE,
                            suppress_align |-> FALSE,
                            file_to_move |-> <<>>,
                            file_to_delete |-> <<>>]
                /\ csf_pc' = "synthesize"
                /\ UNCHANGED <<cwd, csf_error>>
    /\ UNCHANGED <<csf_frame, first_file, oldpath, script_disk, written, old_scripts,
                   synth_result>>

\* lines 144-146: open() of the script file can fail, and the OSError leaves
\* create_script_from_file_list and this function
WriteScriptAndReturn ==
    /\ csf_pc = "synthesize"
    /\ \E ok \in FsOutcomes :
          IF ~ok
          THEN /\ csf_raise("OSError")
               /\ UNCHANGED synth_vars
          ELSE /\ \E file_to_delete \in {<<>>, OldScript} :
                     create_script_from_file_list(
                         [call EXCEPT !.file_to_delete = file_to_delete])
               /\ cwd' = oldpath
               /\ csf_pc' = "returned"
               /\ UNCHANGED <<csf_error, spc>>
    /\ UNCHANGED <<csf_frame, first_file, oldpath>>

InitFirstFile ==
    /\ avoid_darkness_adjustment = FALSE
    /\ clipping_threshold = DefaultClippingThreshold
    /\ rawfile = None
    /\ cwd = StartDir
    /\ olddir = None
    /\ pc = "off"
    /\ shift_factor = 0
    /\ shift_mappings = EmptyMap
    /\ disk = EmptyMap
    /\ current_shift = 0
    /\ found_beginning = FALSE
    /\ found_end = FALSE
    /\ rendered = EmptyMap
    /\ deleted = <<>>
    /\ synth_calls = <<>>
    /\ HDR_result = None
    /\ HDR_error = "none"
    /\ scene = "any"
    /\ faulty_fs \in BOOLEAN
    /\ jpeg_tags = NoJPEG
    /\ original_ISO = None
    /\ original_Ev = None
    /\ attempts = <<>>
    /\ log = <<>>
    /\ script_disk = [x \in {OldScript} |-> [text |-> <<>>, executable |-> FALSE]]
    /\ NoCall
    /\ NoRunner
    /\ NoBatch
    /\ NoHisto
    /\ NoSpurious
    /\ NoMapper
    /\ NoPoll
    /\ first_file \in FirstFileArgs
    /\ num_files \in {1, 2, total_number_of_files}
    /\ oldpath = <<>>
    /\ csf_pc = "start"
    /\ csf_error = "none"

NextFirstFile ==
    \/ ChangeToFirstFilesDirectory
    \/ SelectInputFiles
    \/ WriteScriptAndReturn

SpecFirstFile == InitFirstFile /\ [][NextFirstFile]_vars

\* C28: when create_script_from_first_file is over, whether it returned or
\* an exception left it, the process is in the directory it was called from.
C28_WorkingDirectoryRestoredOnEveryExit ==
    csf_pc \in {"returned", "raised"} => cwd = StartDir

\* the call returned from the subdirectory, and is back
ReturnedToStartDir ==
    csf_pc = "returned" => (cwd = StartDir /\ oldpath = StartDir)

FirstFileBackFromSubdirectory ==
    /\ csf_pc = "returned"
    /\ cwd = StartDir
    /\ synth_result.returned \in DOMAIN script_disk
    /\ Len(call.HDR_input_files) = 3

\* the first file is no JPEG file of its directory: the call ends in that directory
LeftInSubdirectory ==
    csf_pc = "raised" /\ csf_error = "ValueError" /\ cwd = realpath(StartDir, Chars("d"))

\* the script could not be written: the call ends in the first file's directory
LeftInSubdirectoryByWriteFailure ==
    csf_pc = "raised" /\ csf_error = "OSError" /\ cwd = realpath(StartDir, Chars("d"))

-----------------------------------------------------------------------------
(* hang_around (postprocess_photos.py, lines 522-542): the directory is      *)
(* scanned again and again, run_shell_scripts is called when a scan finds an *)
(* executable script, and meanwhile the user may make a script executable.   *)

MaxPolls == 3
MaxGrants == 1

\* the directories hang_around is started in
PollDirectories == {d \in Directories : Cardinality(DOMAIN d) <= 2}

\* lines 535-541, one pass of the loop up to the call of run_shell_scripts:
\* the scan of line 537, and the sleep of line 542 when it finds nothing
ScanForScripts ==
    /\ rss_pc \in {"waiting", "returned"}
    /\ polls < MaxPolls
    /\ polls' = polls + 1
    /\ rss_pc' = IF \E name \in glob(PatternSH, DOMAIN script_disk) :
                        script_disk[name].executable
                 THEN "start" ELSE "waiting"
    /\ UNCHANGED <<bracket_vars, synth_vars, run_vars, has_components, file_list, rss_next,
                   executed, rss_seen, batch_vars, histo_vars, dsr_vars, mapper_vars,
                   csf_vars, grants>>

\* the user's side of the docstring of hang_around: a new shell script is
\* created, or an existing one is given its execute permission, while the
\* loop is running
UserMakesExecutable ==
    /\ rss_pc \in {"waiting", "start", "loop", "returned"}
    /\ Len(grants) < MaxGrants
    /\ \E name \in RunnerNames :
          /\ name \in DOMAIN script_disk => ~script_disk[name].executable
          /\ script_disk' = [x \in (DOMAIN script_disk) \cup {name} |->
                                IF x = name
                                THEN [text |-> IF name \in DOMAIN script_disk
                                               THEN script_disk[name].text
                                               ELSE TextRunnable,
                                      executable |-> TRUE]
                                ELSE script_disk[x]]
          /\ grants' = Append(grants, [script |-> name, at |-> Len(executed)])
    /\ UNCHANGED <<bracket_vars, call, spc, written, old_scripts, synth_result, run_vars,
                   runner_vars, batch_vars, histo_vars, dsr_vars, mapper_vars, csf_vars,
                   polls>>

InitPoll ==
    /\ NoBracket
    /\ NoCall
    /\ script_disk \in PollDirectories
    /\ rss_pc = "waiting"
    /\ has_components \in BOOLEAN
    /\ file_list = <<>>
    /\ rss_next = 1
    /\ executed = <<>>
    /\ rss_seen = EmptyMap
    /\ NoBatch
    /\ NoHisto
    /\ NoSpurious
    /\ NoMapper
    /\ NoFirstFile
    /\ NoPoll

NextPoll ==
    \/ ScanForScripts
    \/ Discover
    \/ RunNextScript
    \/ UserMakesExecutable

SpecPoll == InitPoll /\ [][NextPoll]_vars

\* the user made the script executable after its run number i and before its
\* run number j
GrantedBetween(script, i, j) ==
    \E g \in DOMAIN grants :
        grants[g].script = script /\ grants[g].at >= i /\ grants[g].at < j

NoRerunWithoutGrant ==
    \A i, j \in DOMAIN executed :
        (i < j /\ executed[i] = executed[j]) => GrantedBetween(executed[i], i, j)

\* no exception has left the loop
PollLoopStillRunning == rss_pc # "raised"

\* C29: over all the calls of run_shell_scripts that hang_around makes, no
\* script is run a second time unless the user made it executable again
\* after its previous run, and the loop never ends on its own.
C29_NoRerunAcrossScans ==
    NoRerunWithoutGrant /\ PollLoopStillRunning

\* a script was run on two scans, and nobody had made it executable in between
RerunWithoutGrant ==
    /\ Len(executed) = 2
    /\ executed[1] = executed[2]
    /\ grants = <<>>
    /\ polls = 2

\* the loop was ended by the OSError of a script the kernel refuses
PollLoopEndedByScript == rss_pc = "raised" /\ polls >= 1

\* a script the user made executable while the loop was running was run on a later scan
GrantedScriptRunLater ==
    /\ grants # <<>>
    /\ \E j \in DOMAIN executed :
          executed[j] = grants[1].script /\ j > grants[1].at

\* scripts whose names do not begin with a dash are not run again without a grant
NoRerunOfPlainNames ==
    \A i, j \in DOMAIN executed :
        (i < j /\ executed[i] = executed[j] /\ executed[i][1] # "-")
            => GrantedBetween(executed[i], i, j)

-----------------------------------------------------------------------------
(* Several scripts written by create_script_from_file_list into one         *)
(* directory and then run one after another by run_shell_scripts            *)
(* (postprocess_photos.py, lines 497-501).                                  *)

MaxScripts == 2

RenderedA == Chars("HDR_AIS_a+0.tif")
RenderedB == Chars("HDR_AIS_b+0.tif")

\* the input lists of the scripts: the renderings of two raw files, and
\* camera JPEG files in a longer and a shorter bracket
SequenceLists == {<<RenderedA>>, <<RenderedB>>, <<NamePlain, NameIMG>>, <<PhotoC>>}

SequenceCalls ==
    [HDR_input_files : SequenceLists, metadata_source_file : {<<>>},
     delete_originals : BOOLEAN, suppress_align : BOOLEAN,
     file_to_move : {<<>>}, file_to_delete : {<<>>}]

seq_frame == <<bracket_vars, batch_vars, histo_vars, dsr_vars, mapper_vars, csf_vars,
               poll_vars, rss_pc, has_components, file_list, rss_next, rss_seen>>

\* one more script is written, before any script is run
SynthesizeScript ==
    /\ spc = "idle"
    /\ executed = <<>>
    /\ Len(written) < MaxScripts
    /\ \E c \in SequenceCalls : create_script_from_file_list(c)
    /\ UNCHANGED <<seq_frame, spc, run_vars, executed>>

\* lines 497-500: the first of the scripts that are executable is started
StartPendingScript ==
    /\ spc = "idle"
    /\ written # <<>>
    /\ executable_scripts(script_disk) # <<>>
    /\ LET which_script == executable_scripts(script_disk)[1]
       IN  /\ executed' = Append(executed, which_script)
           /\ sh_cmds' = ShellCommands(script_disk[which_script].text)
    /\ sh_pc' = 1
    /\ sh_cwd' = StartDir
    /\ sh_olddir' = <<>>
    /\ sh_log' = <<>>
    /\ spc' = "running"
    /\ UNCHANGED <<seq_frame, script_disk, call, written, old_scripts, synth_result,
                   wd_files, archive>>

\* line 501, after the script has ended
RevokeExecute ==
    /\ spc = "ran"
    /\ script_disk' = chmod_a_minus_x(script_disk,
                          ShellCommands(chmod_command(executed[Len(executed)]))[1])
    /\ spc' = "idle"
    /\ UNCHANGED <<seq_frame, call, written, old_scripts, synth_result, run_vars, executed>>

InitSequence ==
    /\ avoid_darkness_adjustment = FALSE
    /\ clipping_threshold = DefaultClippingThreshold
    /\ rawfile = RawName
    /\ cwd = StartDir
    /\ olddir = None
    /\ pc = "off"
    /\ shift_factor = 0
    /\ shift_mappings = EmptyMap
    /\ disk = EmptyMap
    /\ current_shift = 0
    /\ found_beginning = FALSE
    /\ found_end = FALSE
    /\ rendered = EmptyMap
    /\ deleted = <<>>
    /\ synth_calls = <<>>
    /\ HDR_result = None
    /\ HDR_error = "none"
    /\ scene = "any"
    /\ faulty_fs = FALSE
    /\ jpeg_tags = NoJPEG
    /\ original_ISO = None
    /\ original_Ev = None
    /\ attempts = <<>>
    /\ log = <<>>
    /\ script_disk = EmptyMap
    /\ call = None
    /\ spc = "idle"
    /\ written = <<>>
    /\ old_scripts = {}
    /\ synth_result = NoResult
    /\ wd_files = UNION {Range(l) : l \in SequenceLists}
    /\ archive = {}
    /\ sh_cmds = <<>>
    /\ sh_pc = 1
    /\ sh_cwd = None
    /\ sh_olddir = None
    /\ sh_log = <<>>
    /\ NoLater

NextSequence ==
    \/ SynthesizeScript
    \/ StartPendingScript
    \/ RunCommand
    \/ RevokeExecute

SpecSequence == InitSequence /\ [][NextSequence]_vars

\* the fusion command of the running script is the next to be run
AtFusion ==
    /\ spc = "running"
    /\ sh_pc <= Len(sh_cmds)
    /\ sh_cmds[sh_pc][1] = WordEnfuse

\* the files the fusion command takes in the directory as it is
FusedFiles == Operands(SubSeq(sh_cmds[sh_pc], 3, Len(sh_cmds[sh_pc])), wd_files) \cap wd_files

\* the inputs the running script names in its last stage
InputsOfRunningScript ==
    LET last == sh_cmds[Len(sh_cmds) - 1]
    IN  Range(Tail(last)) \ {WordComponents}

\* what comes from the running script's input list: its inputs, and the
\* aligned intermediates its alignment step makes of them
OwnFiles ==
    InputsOfRunningScript
        \cup {AlignedName(k) : k \in 1..Cardinality(InputsOfRunningScript)}

\* C30: when several scripts were written and are then run one after
\* another in the same directory, the fusion step of each takes only its own
\* script's inputs and the aligned intermediates made of them.
C30_FusionConsumesOnlyOwnFiles ==
    (AtFusion /\ Cardinality(DOMAIN script_disk) >= 2) => FusedFiles \subseteq OwnFiles

\* the script for the renderings of one raw file fuses the rendering of the other
ForeignRenderingFused ==
    /\ AtFusion
    /\ InputsOfRunningScript = {RenderedA}
    /\ script_file_name_of(<<RenderedB>>) \in DOMAIN script_disk
    /\ RenderedB \in FusedFiles

\* the second script, for one photo, fuses an aligned intermediate that the
\* first script, for two photos, left behind
LeftoverIntermediateFused ==
    /\ AtFusion
    /\ Len(executed) = 2
    /\ InputsOfRunningScript = {PhotoC}
    /\ sh_log # <<>>
    /\ \A k \in DOMAIN sh_log : sh_log[k].ok
    /\ AlignedName(2) \in FusedFiles
=============================================================================
